---- MODULE Spec2Model ----
(***************************************************************************)
(* A model of ewepkg: the `build` command (recipe load, concurrent source  *)
(* fetch, prepare and build stages, packaging re-exec), the recipe data     *)
(* model (Source / Package derivation) and the Lua declaration registry of  *)
(* ewe-build.                                                               *)
(*                                                                          *)
(* Spec      the `build` command: run() with the fetch engine inside        *)
(* SpecLua   ewe-build: BuildScript::new and its declaration registry       *)
(* SpecLoad  Source::from_dynamic applied to recipe values                  *)
(* SpecParse    version.rs: from_str, to_string and from_str again          *)
(* SpecCompare  version.rs: Ord::cmp of PackageVersion                      *)
(* SpecNumeric  version.rs: cmp_numerical on runs of digits                 *)
(* SpecArchive  fetch.rs: ArchiveKind::from_file_name on file names         *)
(* SpecPack     the packaging child process: run_package, PackScript::pack  *)
(***************************************************************************)
EXTENDS Integers, Sequences, FiniteSets, TLC

\* ------------------------------------------------------------------ bounds
\* The largest number of source files a recipe of the model declares.
MaxFiles == 7
\* The largest number of those files that carry a `rename`.
MaxRenamed == 1
\* The largest number of declaration calls a recipe script of the model makes.
MaxCalls == 3
\* The longest `packages` table of a recipe value of the model.
MaxPackages == 2
\* The longest `source` list of a recipe value of the model.
MaxSourceFiles == 1
\* The longest version text parsed, the texts of the tests aside.
MaxTextLen == 4
\* The longest upstream version compared, the versions of the tests aside.
MaxUpstreamLen == 2
\* The longest run of digits compared, the runs of the tests aside.
MaxDigits == 3
\* The largest number of dot-separated segments of a file name classified.
MaxSegments == 3

\* const PARALLEL: usize = 5 (the admission window of the fetch engine).
PARALLEL == 5

None == "none"

\* Option<T>: None is the empty sequence, Some(x) the sequence holding x.
NoneOpt == <<>>
Some(x) == <<x>>
is_some(o) == o # <<>>
is_none(o) == o = <<>>
unwrap_or(o, d) == IF o = <<>> THEN d ELSE o[1]

Min(a, b) == IF a <= b THEN a ELSE b

\* ------------------------------------------------------------------- state
VARIABLES
  pc,           \* where run() is: new, fetch, fetching, prepare, build, pack, done, failed
  files,        \* source.info.source: the declared SourceFiles, in declaration order
  prepare,      \* source.prepare is Some
  build,        \* source.build is Some
  iter,         \* files.iter(): how many files the iterator has yielded
  pool,         \* FuturesUnordered: the file tasks in flight (indices into files)
  status,       \* per file: pending, running, done, failed, dropped
  admits,       \* per file: how many times a task was pushed for it
  staging,      \* files whose destination exists in the staging directory
  fetchResult,  \* what fetch_source returned: none, ok, err
  fetchErr,     \* the error context fetch_source returned
  started,      \* the steps of run() that have started, in order
  completed,    \* the steps of run() that returned Ok
  \* ewe-build, BuildScript::new
  luaPc,        \* idle, exec (the script runs), loaded, error
  app_source,   \* lua.app_data::<SourceItem>(): the registered Source, or None
  app_packages, \* lua.app_data::<BTreeSet<PackageItem>>(): the registered packages
  lastCall,     \* the declaration call made last: [fn, arg]
  lastResult,   \* what that call returned to the script: ok, or the error
  nCalls,       \* how many declaration calls the script has made
  luaErr,       \* the error BuildScript::new returned
  \* recipe loading, Source::from_dynamic
  value,        \* the value the recipe script evaluates to
  source,       \* Option: what Source::from_dynamic of build/types.rs returned
  legacy,       \* Option: what Source::from_dynamic of source.rs returned
  \* version.rs, parsing and formatting
  text,         \* the text handed to PackageVersion::from_str
  parsed,       \* Option: what from_str(text) returned
  formatted,    \* Option: what to_string() of the parsed version returned
  reparsed,     \* Option: what from_str of the formatted text returned
  \* version.rs, comparison
  va, vb, vc,   \* three PackageVersions
  ord,          \* Option: what Ord::cmp returned for the pairs of va, vb, vc
  \* version.rs, cmp_numerical
  na, nb,       \* two runs of digits
  nord,         \* Option: what cmp_numerical and cmp_version returned for them
  \* fetch.rs, ArchiveKind::from_file_name
  fname,        \* the file name classified
  akind,        \* Option: what from_file_name returned for it, or that it panicked
  \* the packaging child process, run_package
  uid,          \* what getuid() returns in the process
  ppc,          \* where run_package is: check, new, next, walk, done, failed
  parses,       \* how many times the recipe was parsed by PackScript::new
  pack_packages, \* PackScript.packages, in the order of the BTreeSet (by name)
  todo,         \* the packages the loop of PackScript::pack has not reached yet
  cur,          \* the package the loop is at
  root,         \* the paths beneath the package directory after the pack stage
  stack,        \* the stack of the directory walk: (path, is_dir)
  paths,        \* the paths the walk has enumerated, in order
  stages,       \* the packages whose pack stage was invoked, in order
  archives,     \* per archive file created: its entries, and whether it was finished
  \* fetch.rs, the file tasks of one fetch: fetch_single_source_inner
  tfiles,       \* the declared SourceFiles: location file name, rename, archive members
  tstatus,      \* per file: pending, pushed, running, done, failed, dropped
  tdst,         \* per file, Option: the destination its task writes, and the kind decided
  textracted,   \* per file: the archive members its task has written beneath dst
  tresult,      \* what fetch_source returned: none, ok, err
  \* fetch.rs, is_safe_name
  sname,        \* the member path looked at
  ssafe,        \* Option: what is_safe_name returned for it
  \* ewe-build, BuildScript::scope
  sinv,         \* how many stage invocations (calls of build) have entered scope
  sactive,      \* a stage invocation is running
  g_run,        \* Option: the invocation whose `run` the global `run` holds
  g_cd,         \* Option: the invocation whose `cd` the global `cd` holds
  alive,        \* the invocations whose scoped functions have not been destructed
  cells,        \* per invocation: what was pushed on its current_dir, and by which invocation
  saved,        \* Option: the invocation whose helpers the script keeps in a variable
  lastHelper    \* the helper call made last: helper, closure, invocation, result

runVars == <<pc, files, prepare, build, iter, pool, status, admits, staging,
             fetchResult, fetchErr, started, completed>>

luaVars == <<luaPc, app_source, app_packages, lastCall, lastResult, nCalls, luaErr>>

loadVars == <<value, source, legacy>>

parseVars == <<text, parsed, formatted, reparsed>>

cmpVars == <<va, vb, vc, ord>>

numVars == <<na, nb, nord>>

archVars == <<fname, akind>>

packVars == <<uid, ppc, parses, pack_packages, todo, cur, root, stack, paths, stages, archives>>

taskVars == <<tfiles, tstatus, tdst, textracted, tresult>>

safeVars == <<sname, ssafe>>

\* The variables of the programs of fetch.rs and of the stage scope, looked
\* at on their own.
scopeVars == <<sinv, sactive, g_run, g_cd, alive, cells, saved, lastHelper>>

restVars == <<taskVars, safeVars, scopeVars>>

vars == <<runVars, luaVars, loadVars, parseVars, cmpVars, numVars, archVars, packVars,
          restVars>>

\* What the actions of one program leave alone: the other programs' variables.
notRun == <<luaVars, loadVars, parseVars, cmpVars, numVars, archVars, packVars, restVars>>
notLua == <<runVars, loadVars, parseVars, cmpVars, numVars, archVars, packVars, restVars>>
notLoad == <<runVars, luaVars, parseVars, cmpVars, numVars, archVars, packVars, restVars>>
notParse == <<runVars, luaVars, loadVars, cmpVars, numVars, archVars, packVars, restVars>>
notCmp == <<runVars, luaVars, loadVars, parseVars, numVars, archVars, packVars, restVars>>
notNum == <<runVars, luaVars, loadVars, parseVars, cmpVars, archVars, packVars, restVars>>
notArch == <<runVars, luaVars, loadVars, parseVars, cmpVars, numVars, packVars, restVars>>
notPack == <<runVars, luaVars, loadVars, parseVars, cmpVars, numVars, archVars, restVars>>
notTask == <<runVars, luaVars, loadVars, parseVars, cmpVars, numVars, archVars, packVars,
             safeVars, scopeVars>>
notSafe == <<runVars, luaVars, loadVars, parseVars, cmpVars, numVars, archVars, packVars,
             taskVars, scopeVars>>
notScope == <<runVars, luaVars, loadVars, parseVars, cmpVars, numVars, archVars, packVars,
              taskVars, safeVars>>

\* The variables of the `build` command while another program is looked at.
IdleRun ==
  /\ pc = "idle"
  /\ files = <<>>
  /\ prepare = FALSE
  /\ build = FALSE
  /\ iter = 0
  /\ pool = {}
  /\ status = <<>>
  /\ admits = <<>>
  /\ staging = {}
  /\ fetchResult = None
  /\ fetchErr = <<>>
  /\ started = <<>>
  /\ completed = {}

\* The variables of ewe-build while another program is looked at.
IdleLua ==
  /\ luaPc = "idle"
  /\ app_source = <<>>
  /\ app_packages = {}
  /\ lastCall = <<>>
  /\ lastResult = <<>>
  /\ nCalls = 0
  /\ luaErr = <<>>

\* The variables of recipe loading while another program is looked at.
IdleLoad ==
  /\ value = <<>>
  /\ source = <<>>
  /\ legacy = <<>>

\* The variables of version parsing while another program is looked at.
IdleParse ==
  /\ text = <<>>
  /\ parsed = <<>>
  /\ formatted = <<>>
  /\ reparsed = <<>>

\* The variables of version comparison while another program is looked at.
IdleCmp ==
  /\ va = <<>>
  /\ vb = <<>>
  /\ vc = <<>>
  /\ ord = <<>>

\* The variables of cmp_numerical while another program is looked at.
IdleNum ==
  /\ na = <<>>
  /\ nb = <<>>
  /\ nord = <<>>

\* The variables of the version module while another program is looked at.
IdleVersion == IdleParse /\ IdleCmp /\ IdleNum

\* The variables of archive classification while another program is looked at.
IdleArch ==
  /\ fname = <<>>
  /\ akind = <<>>

\* The variables of the packaging process while another program is looked at.
IdlePack ==
  /\ uid = 0
  /\ ppc = "idle"
  /\ parses = 0
  /\ pack_packages = <<>>
  /\ todo = <<>>
  /\ cur = <<>>
  /\ root = {}
  /\ stack = <<>>
  /\ paths = <<>>
  /\ stages = <<>>
  /\ archives = <<>>

\* The variables of the file tasks while another program is looked at.
IdleTask ==
  /\ tfiles = <<>>
  /\ tstatus = <<>>
  /\ tdst = <<>>
  /\ textracted = <<>>
  /\ tresult = "idle"

\* The variables of is_safe_name while another program is looked at.
IdleSafe ==
  /\ sname = <<>>
  /\ ssafe = <<>>

\* The variables of the stage scope while another program is looked at.
IdleScope ==
  /\ sinv = 0
  /\ sactive = FALSE
  /\ g_run = <<>>
  /\ g_cd = <<>>
  /\ alive = {}
  /\ cells = <<>>
  /\ saved = <<>>
  /\ lastHelper = <<"idle">>

\* The variables of the programs of fetch.rs and of the stage scope while
\* another one is looked at.
IdleRest == IdleTask /\ IdleSafe /\ IdleScope

\* The variables of the programs settled before, while one of fetch.rs is
\* looked at.
IdleOld == IdleRun /\ IdleLua /\ IdleLoad /\ IdleVersion /\ IdleArch /\ IdlePack

\* --------------------------------------------------------------- SourceFile
\* The location's own file name (last path / URL segment) of file i.
LocName(i) == <<"loc", i>>
\* The `rename` given to file i, when it has one.
RenName(i) == <<"ren", i>>

\* SourceLocation::file_name: the last segment of the location.
location_file_name(f) == f.location

\* SourceFile::file_name: `rename`, else the location's file name.
file_name(f) == unwrap_or(f.rename, location_file_name(f))

\* fetch_single_source: the context put on a failing file task's error.
fetch_context_loc(f) == <<"failed to fetch", location_file_name(f)>>
fetch_context(f) == <<"failed to fetch", file_name(f)>>

NFiles == Len(files)

\* ------------------------------------------------------------------- run()
InitRun ==
  /\ pc = "new"
  /\ files = <<>>
  /\ prepare = FALSE
  /\ build = FALSE
  /\ iter = 0
  /\ pool = {}
  /\ status = <<>>
  /\ admits = <<>>
  /\ staging = {}
  /\ fetchResult = None
  /\ fetchErr = <<>>
  /\ started = <<>>
  /\ completed = {}

\* BuildScript::new: the recipe is evaluated and validated; on success the
\* Source is held for the rest of the run.
BuildScript_new ==
  /\ pc = "new"
  /\ started' = Append(started, "load")
  /\ \/ \E n \in 0..MaxFiles, rn \in SUBSET (1..MaxFiles), p \in BOOLEAN, b \in BOOLEAN :
          /\ rn \subseteq 1..n
          /\ Cardinality(rn) <= MaxRenamed
          /\ files' = [i \in 1..n |->
                         [location |-> LocName(i),
                          rename |-> IF i \in rn THEN Some(RenName(i)) ELSE NoneOpt]]
          /\ prepare' = p
          /\ build' = b
          /\ status' = [i \in 1..n |-> "pending"]
          /\ admits' = [i \in 1..n |-> 0]
          /\ completed' = completed \cup {"load"}
          /\ pc' = "fetch"
     \/ /\ pc' = "failed"
        /\ UNCHANGED <<files, prepare, build, status, admits, completed>>
  /\ UNCHANGED notRun
  /\ UNCHANGED <<iter, pool, staging, fetchResult, fetchErr>>

\* pool.push(fetch_single_source(.., file, ..)) for the files after `from` up to `to`.
Admit(st, from, to) == [i \in DOMAIN st |-> IF from < i /\ i <= to THEN "running" ELSE st[i]]
Count(ad, from, to) == [i \in DOMAIN ad |-> IF from < i /\ i <= to THEN ad[i] + 1 ELSE ad[i]]

\* A slip: the first loop without take(PARALLEL).
fetch_source_start_all ==
  /\ pc = "fetch"
  /\ started' = Append(started, "fetch")
  /\ iter' = NFiles
  /\ pool' = 1..NFiles
  /\ status' = Admit(status, 0, NFiles)
  /\ admits' = Count(admits, 0, NFiles)
  /\ pc' = "fetching"
  /\ UNCHANGED notRun
  /\ UNCHANGED <<files, prepare, build, staging, fetchResult, fetchErr, completed>>

\* prepare() calls fetch_source; fetch_source builds the runtime and
\* fetch_source_inner pushes the first PARALLEL files into the pool.
fetch_source_start ==
  /\ pc = "fetch"
  /\ started' = Append(started, "fetch")
  /\ \/ /\ iter' = Min(NFiles, PARALLEL)
        /\ pool' = 1..Min(NFiles, PARALLEL)
        /\ status' = Admit(status, 0, Min(NFiles, PARALLEL))
        /\ admits' = Count(admits, 0, Min(NFiles, PARALLEL))
        /\ pc' = "fetching"
        /\ UNCHANGED <<fetchResult, fetchErr>>
     \/ \* RtBuilder::build()? fails: nothing is admitted
        /\ fetchResult' = "err"
        /\ fetchErr' = <<"runtime">>
        /\ pc' = "failed"
        /\ UNCHANGED <<iter, pool, status, admits>>
  /\ UNCHANGED notRun
  /\ UNCHANGED <<files, prepare, build, staging, completed>>

\* A file task in flight creates its destination in the staging directory.
fetch_single_source_write(i) ==
  /\ pc = "fetching"
  /\ i \in pool
  /\ status[i] = "running"
  /\ i \notin staging
  /\ staging' = staging \cup {i}
  /\ UNCHANGED notRun
  /\ UNCHANGED <<pc, files, prepare, build, iter, pool, status, admits,
                 fetchResult, fetchErr, started, completed>>

\* A slip: a finished task is not replaced by the next pending file.
try_next_ok_no_push(i) ==
  /\ pc = "fetching"
  /\ i \in pool
  /\ status[i] = "running"
  /\ i \in staging
  /\ status' = [status EXCEPT ![i] = "done"]
  /\ pool' = pool \ {i}
  /\ UNCHANGED notRun
  /\ UNCHANGED <<pc, files, prepare, build, iter, admits, staging, fetchResult,
                 fetchErr, started, completed>>

\* A loop that admits the next files only once the pool has run empty.
try_next_ok_batch(i) ==
  /\ pc = "fetching"
  /\ i \in pool
  /\ status[i] = "running"
  /\ i \in staging
  /\ IF pool = {i} /\ iter < NFiles
       THEN /\ iter' = Min(NFiles, iter + PARALLEL)
            /\ pool' = (iter + 1)..Min(NFiles, iter + PARALLEL)
            /\ status' = Admit([status EXCEPT ![i] = "done"], iter,
                               Min(NFiles, iter + PARALLEL))
            /\ admits' = Count(admits, iter, Min(NFiles, iter + PARALLEL))
       ELSE /\ pool' = pool \ {i}
            /\ status' = [status EXCEPT ![i] = "done"]
            /\ UNCHANGED <<iter, admits>>
  /\ UNCHANGED notRun
  /\ UNCHANGED <<pc, files, prepare, build, staging, fetchResult, fetchErr,
                 started, completed>>

\* pool.try_next() yields Some(()): task i finished; the loop body pushes the
\* next file of the iterator, when there is one.
try_next_ok(i) ==
  /\ pc = "fetching"
  /\ i \in pool
  /\ status[i] = "running"
  /\ i \in staging
  /\ IF iter < NFiles
       THEN /\ iter' = iter + 1
            /\ pool' = (pool \ {i}) \cup {iter + 1}
            /\ status' = Admit([status EXCEPT ![i] = "done"], iter, iter + 1)
            /\ admits' = Count(admits, iter, iter + 1)
       ELSE /\ pool' = pool \ {i}
            /\ status' = [status EXCEPT ![i] = "done"]
            /\ UNCHANGED <<iter, admits>>
  /\ UNCHANGED notRun
  /\ UNCHANGED <<pc, files, prepare, build, staging, fetchResult, fetchErr,
                 started, completed>>

\* What the `?` does with a failed task: the error leaves fetch_source_inner,
\* the pool and the tasks still in it are dropped.
Fail(i, ctx) ==
  /\ pc = "fetching"
  /\ i \in pool
  /\ status[i] = "running"
  /\ status' = [j \in DOMAIN status |->
                  IF j = i THEN "failed"
                  ELSE IF j \in pool THEN "dropped" ELSE status[j]]
  /\ pool' = {}
  /\ fetchResult' = "err"
  /\ fetchErr' = ctx
  /\ pc' = "failed"
  /\ UNCHANGED notRun
  /\ UNCHANGED <<files, prepare, build, iter, admits, staging, started, completed>>

\* A transfer that a timeout takes out of the pool once it has stalled.
download_stall_timeout(i) ==
  /\ pc = "fetching"
  /\ i \in pool
  /\ status[i] = "running"
  /\ \A j \in pool : status[j] # "stalled"
  /\ status' = [status EXCEPT ![i] = "stalled"]
  /\ pool' = pool \ {i}
  /\ UNCHANGED notRun
  /\ UNCHANGED <<pc, files, prepare, build, iter, admits, staging, fetchResult,
                 fetchErr, started, completed>>

\* download: the request of task i stops making progress. send() and
\* try_next() of the byte stream are awaited without a timeout, so the task
\* stays in the pool and never yields. At most one transfer stalls.
download_stall(i) ==
  /\ pc = "fetching"
  /\ i \in pool
  /\ status[i] = "running"
  /\ \A j \in pool : status[j] # "stalled"
  /\ status' = [status EXCEPT ![i] = "stalled"]
  /\ UNCHANGED notRun
  /\ UNCHANGED <<pc, files, prepare, build, iter, pool, admits, staging, fetchResult,
                 fetchErr, started, completed>>

\* A slip: the context names the location's file name, not the resolved one.
try_next_err_loc(i) == Fail(i, fetch_context_loc(files[i]))

\* pool.try_next() yields Err: task i failed.
try_next_err(i) == Fail(i, fetch_context(files[i]))

\* pool.try_next() yields None: the pool is empty, fetch_source returns Ok.
try_next_none ==
  /\ pc = "fetching"
  /\ pool = {}
  /\ fetchResult' = "ok"
  /\ completed' = completed \cup {"fetch"}
  /\ pc' = "prepare"
  /\ UNCHANGED notRun
  /\ UNCHANGED <<files, prepare, build, iter, pool, status, admits, staging,
                 fetchErr, started>>

\* One optional stage of the build script: exec() of `stage` when it is
\* given, `?` on its result.
Stage(at, given, name, next) ==
  /\ pc = at
  /\ IF given
       THEN /\ started' = Append(started, name)
            /\ \/ /\ completed' = completed \cup {name}
                  /\ pc' = next
               \/ /\ pc' = "failed"
                  /\ UNCHANGED completed
       ELSE /\ pc' = next
            /\ UNCHANGED <<started, completed>>
  /\ UNCHANGED notRun
  /\ UNCHANGED <<files, prepare, build, iter, pool, status, admits, staging,
                 fetchResult, fetchErr>>

\* A slip: the result of the prepare stage is not looked at.
prepare_stage_ignore ==
  /\ pc = "prepare"
  /\ IF prepare
       THEN /\ started' = Append(started, "prepare")
            /\ \/ completed' = completed \cup {"prepare"}
               \/ UNCHANGED completed
       ELSE UNCHANGED <<started, completed>>
  /\ pc' = "build"
  /\ UNCHANGED notRun
  /\ UNCHANGED <<files, prepare, build, iter, pool, status, admits, staging,
                 fetchResult, fetchErr>>

\* BuildScript::prepare, after the fetch: the prepare stage.
prepare_stage == Stage("prepare", prepare, "prepare", "build")

\* BuildScript::build.
build_stage == Stage("build", build, "build", "pack")

\* BuildScript::pack: re-exec under fakeroot and wait for the child.
pack ==
  /\ pc = "pack"
  /\ started' = Append(started, "pack")
  /\ \/ /\ completed' = completed \cup {"pack"}
        /\ pc' = "done"
     \/ /\ pc' = "failed"
        /\ UNCHANGED completed
  /\ UNCHANGED notRun
  /\ UNCHANGED <<files, prepare, build, iter, pool, status, admits, staging,
                 fetchResult, fetchErr>>

Init ==
  /\ InitRun /\ IdleLua /\ IdleLoad /\ IdleVersion /\ IdleArch /\ IdlePack
  /\ IdleRest

Next ==
  \/ BuildScript_new
  \/ fetch_source_start
  \/ \E i \in 1..MaxFiles : fetch_single_source_write(i)
  \/ \E i \in 1..MaxFiles : try_next_ok(i)
  \/ \E i \in 1..MaxFiles : try_next_err(i)
  \/ try_next_none
  \/ prepare_stage
  \/ build_stage
  \/ pack

Spec == Init /\ [][Next]_vars

\* C29: as long as no task has failed, whenever the fetch engine waits for
\* a completion the number of tasks in flight is min(5, number of declared
\* files not yet completed), and files are admitted in declaration order.
C29_WindowFull ==
  /\ [](pc = "fetching" =>
          /\ \A i \in DOMAIN status : status[i] # "failed"
          /\ pool = {i \in DOMAIN status : status[i] = "running"}
          /\ Cardinality(pool) =
               Min(PARALLEL,
                   NFiles - Cardinality({i \in DOMAIN status : status[i] = "done"}))
          /\ {i \in DOMAIN status : status[i] # "pending"} = 1..iter)
  /\ [][pc' = "fetching" => pool' \ pool = (iter + 1)..iter']_vars

\* C29 happens: with more files than the window holds, a task has completed
\* and the window is full again, one file still waiting.
C29_Witness ==
  /\ pc = "fetching"
  /\ NFiles = PARALLEL + 2
  /\ iter = PARALLEL + 1
  /\ Cardinality(pool) = PARALLEL
  /\ status[1] = "running"
  /\ status[2] = "done"

\* ------------------------------------------- the fetch with a stalled transfer
\* run() at prepare(): the recipe is loaded, its files are declared.
StartStall ==
  /\ pc = "fetch"
  /\ files \in {[i \in 1..n |-> [location |-> LocName(i), rename |-> NoneOpt]] :
                  n \in 0..MaxFiles}
  /\ prepare = TRUE
  /\ build = TRUE
  /\ iter = 0
  /\ pool = {}
  /\ status = [i \in DOMAIN files |-> "pending"]
  /\ admits = [i \in DOMAIN files |-> 0]
  /\ staging = {}
  /\ fetchResult = None
  /\ fetchErr = <<>>
  /\ started = <<"load">>
  /\ completed = {"load"}

InitStall ==
  /\ StartStall /\ IdleLua /\ IdleLoad /\ IdleVersion /\ IdleArch /\ IdlePack
  /\ IdleRest

NextStall ==
  \/ fetch_source_start
  \/ \E i \in 1..MaxFiles : download_stall(i)
  \/ \E i \in 1..MaxFiles : fetch_single_source_write(i)
  \/ \E i \in 1..MaxFiles : try_next_ok(i)
  \/ \E i \in 1..MaxFiles : try_next_err(i)
  \/ try_next_none
  \/ prepare_stage
  \/ build_stage
  \/ pack

\* The current-thread runtime polls every task of the pool that can move on,
\* and the loop takes every result that is ready.
FairStall ==
  /\ WF_vars(fetch_source_start)
  /\ \A i \in 1..MaxFiles : WF_vars(fetch_single_source_write(i))
  /\ \A i \in 1..MaxFiles : WF_vars(try_next_ok(i))

SpecStall == InitStall /\ [][NextStall]_vars /\ FairStall

\* The transfer of file s has stalled.
Stalled(s) == s \in DOMAIN status /\ status[s] = "stalled"

\* C23: when one admitted transfer never completes and no other file task
\* fails, the stalled task holds one slot of the window, every other
\* declared file is still admitted and completes, and fetch_source does not
\* return, neither with success nor with an error.
C23_StalledTransfer ==
  /\ [](\A s \in 1..MaxFiles :
          Stalled(s) =>
            /\ fetchResult = None
            /\ pc = "fetching"
            /\ s \in pool
            /\ Cardinality(pool \ {s}) <= PARALLEL - 1)
  /\ (\E s \in 1..MaxFiles : Stalled(s)) ~>
       \/ \E s \in 1..MaxFiles :
            /\ Stalled(s)
            /\ \A i \in DOMAIN status \ {s} : status[i] = "done" /\ admits[i] = 1
       \/ \E i \in DOMAIN status : status[i] = "failed"

\* C23 happens: a transfer of the first window has stalled, and every other
\* file, those beyond the window included, was admitted and is done.
C23_Witness ==
  /\ NFiles > PARALLEL
  /\ \E s \in 1..PARALLEL :
       /\ Stalled(s)
       /\ \A i \in DOMAIN status \ {s} : status[i] = "done"

\* ------------------------------------------------- ewe-build: the registry
\* The values a script hands to define_source: Source tables, and a value
\* that is no table.
LuaSources ==
  {[type |-> "table", name |-> n, description |-> "sd", depends |-> d] :
     n \in {"a", "b"}, d \in {{"x"}}}

\* The values a script hands to define_package: package deltas, and a value
\* that is no table.
LuaDeltas ==
  {[type |-> "table", name |-> n, description |-> d, depends |-> {}] :
     n \in {NoneOpt, Some("a"), Some("b")}, d \in {NoneOpt, Some("pd")}}

NotATable == [type |-> "nil"]

\* FromLua of the argument: lua.unpack(value)? fails on a value that is no
\* table, before the callback body runs.
from_lua(v) == IF v.type = "table" THEN <<"ok">> ELSE <<"error converting Lua value to table">>

\* PackageDelta::into_package_item: the delta merged against the Source.
into_package_item(delta, info) ==
  [name |-> unwrap_or(delta.name, info.name),
   description |-> unwrap_or(delta.description, info.description),
   depends |-> delta.depends \cup info.depends]

\* BTreeSet<PackageItem>::contains: PackageItems compare by name.
contains(packages, package) == \E q \in packages : q.name = package.name

\* BuildScript::new, before the script runs: an empty registry.
StartLua ==
  /\ luaPc = "exec"
  /\ app_source = NoneOpt
  /\ app_packages = {}
  /\ lastCall = [fn |-> None, arg |-> NotATable]
  /\ lastResult = <<>>
  /\ nCalls = 0
  /\ luaErr = <<>>

\* A slip: the second define_source replaces the registered Source.
define_source_overwrite(v) ==
  /\ luaPc = "exec"
  /\ nCalls < MaxCalls
  /\ nCalls' = nCalls + 1
  /\ lastCall' = [fn |-> "define_source", arg |-> v]
  /\ IF from_lua(v) # <<"ok">>
       THEN /\ lastResult' = from_lua(v)
            /\ UNCHANGED app_source
       ELSE /\ app_source' = Some(v)
            /\ lastResult' = <<"ok">>
  /\ UNCHANGED notLua
  /\ UNCHANGED <<luaPc, app_packages, luaErr>>

\* The callback define_source(source: SourceItem).
define_source(v) ==
  /\ luaPc = "exec"
  /\ nCalls < MaxCalls
  /\ nCalls' = nCalls + 1
  /\ lastCall' = [fn |-> "define_source", arg |-> v]
  /\ IF from_lua(v) # <<"ok">>
       THEN /\ lastResult' = from_lua(v)
            /\ UNCHANGED app_source
       ELSE IF is_none(app_source)
         THEN /\ app_source' = Some(v)
              /\ lastResult' = <<"ok">>
         ELSE /\ lastResult' = <<"can only define source once">>
              /\ UNCHANGED app_source
  /\ UNCHANGED notLua
  /\ UNCHANGED <<luaPc, app_packages, luaErr>>

\* The callback define_package(delta: PackageDelta).
define_package(v) ==
  /\ luaPc = "exec"
  /\ nCalls < MaxCalls
  /\ nCalls' = nCalls + 1
  /\ lastCall' = [fn |-> "define_package", arg |-> v]
  /\ IF from_lua(v) # <<"ok">>
       THEN /\ lastResult' = from_lua(v)
            /\ UNCHANGED app_packages
       ELSE IF is_none(app_source)
         THEN /\ lastResult' = <<"source not defined; define source before packages">>
              /\ UNCHANGED app_packages
         ELSE IF contains(app_packages, into_package_item(v, app_source[1]))
           THEN /\ lastResult' = <<"duplicate package", into_package_item(v, app_source[1]).name>>
                /\ UNCHANGED app_packages
           ELSE /\ app_packages' = app_packages \cup {into_package_item(v, app_source[1])}
                /\ lastResult' = <<"ok">>
  /\ UNCHANGED notLua
  /\ UNCHANGED <<luaPc, app_source, luaErr>>

\* lua.load(path).exec() fails: the error of the last call was not caught by
\* the script (or the script failed by itself), and BuildScript::new returns it.
exec_err ==
  /\ luaPc = "exec"
  /\ luaPc' = "error"
  /\ luaErr' = IF lastResult \in {<<>>, <<"ok">>} THEN <<"script error">> ELSE lastResult
  /\ UNCHANGED notLua
  /\ UNCHANGED <<app_source, app_packages, lastCall, lastResult, nCalls>>

\* lua.load(path).exec() returns Ok: the registry is taken out and checked.
exec_ok ==
  /\ luaPc = "exec"
  /\ IF is_none(app_source)
       THEN luaPc' = "error" /\ luaErr' = <<"no source specified">>
       ELSE IF app_packages = {}
         THEN luaPc' = "error" /\ luaErr' = <<"no package specified">>
         ELSE luaPc' = "loaded" /\ UNCHANGED luaErr
  /\ UNCHANGED notLua
  /\ UNCHANGED <<app_source, app_packages, lastCall, lastResult, nCalls>>

NextLua ==
  \/ \E v \in LuaSources \cup {NotATable} : define_source(v)
  \/ \E v \in LuaDeltas \cup {NotATable} : define_package(v)
  \/ exec_err
  \/ exec_ok

InitLua ==
  /\ StartLua /\ IdleRun /\ IdleLoad /\ IdleVersion /\ IdleArch /\ IdlePack
  /\ IdleRest

SpecLua == InitLua /\ [][NextLua]_vars

\* ------------------------------------------------------------ fetch engine
\* The file tasks that have been admitted and have not finished.
InFlight == {i \in DOMAIN status : admits[i] > 0 /\ status[i] = "running"}

\* C1: during fetch_source, whatever the number of declared files, the file
\* tasks admitted and not yet finished never number more than 5.
C1_WindowBound == Cardinality(InFlight) <= 5 /\ Cardinality(pool) <= 5

\* C1 happens: the window is full after a finished task was replaced, with
\* more files declared than the window holds.
C1_Witness ==
  /\ pc = "fetching"
  /\ NFiles > 5
  /\ iter > 5
  /\ Cardinality(InFlight) = 5

\* The resolved name of a declared file: its `rename` when it has one, and
\* the last segment of its location otherwise.
Resolved(f) == IF f.rename = <<>> THEN f.location ELSE f.rename[1]

\* C2: when an admitted file task fails, fetch_source returns an error that
\* names the file by its resolved name, no pending file is admitted at that
\* step or after it, and what finished siblings wrote stays in place.
C2_FailFast ==
  /\ [](\A i \in DOMAIN status :
          status[i] = "failed" =>
            /\ fetchResult = "err"
            /\ fetchErr = <<"failed to fetch", Resolved(files[i])>>
            /\ \A j \in DOMAIN status : status[j] = "done" => j \in staging)
  /\ [][(\E i \in DOMAIN status' : status'[i] = "failed") =>
          /\ iter' = iter
          /\ admits' = admits
          /\ \A j \in DOMAIN status : status[j] = "done" => j \in staging']_vars

\* C2 happens: a renamed file has failed while a sibling had finished and a
\* file was still pending.
C2_Witness ==
  \E i \in DOMAIN status :
    /\ status[i] = "failed"
    /\ files[i].rename # <<>>
    /\ \E j \in DOMAIN status : status[j] = "done" /\ j \in staging
    /\ \E j \in DOMAIN status : status[j] = "pending"
    /\ \E j \in DOMAIN status : status[j] = "dropped"

\* C3: fetch_source returns success only when every declared file has been
\* admitted exactly once and its task finished successfully; no file is
\* admitted twice in any state.
C3_AllFetchedOnce ==
  /\ \A i \in DOMAIN admits : admits[i] <= 1
  /\ fetchResult = "ok" =>
       \A i \in 1..NFiles : admits[i] = 1 /\ status[i] = "done" /\ i \in staging

\* C3 happens: fetch_source has returned success for more files than the
\* window holds.
C3_Witness == fetchResult = "ok" /\ NFiles > 5

\* --------------------------------------------------------------- the run
Rank(s) ==
  CASE s = "load" -> 1
    [] s = "fetch" -> 2
    [] s = "prepare" -> 3
    [] s = "build" -> 4
    [] s = "pack" -> 5

\* The steps a run of this recipe has to go through before step s.
Before(s) ==
  {t \in {"load", "fetch", "prepare", "build", "pack"} :
     /\ Rank(t) < Rank(s)
     /\ t = "prepare" => prepare
     /\ t = "build" => build}

\* C4: the build command runs load, fetch, prepare, build and the packaging
\* re-exec in that order, each step starting only after every step before it
\* returned Ok; after a failed step nothing is started.
C4_RunOrder ==
  /\ \A k \in 1..Len(started) : Before(started[k]) \subseteq completed
  /\ \A k \in 2..Len(started) :
       /\ Rank(started[k - 1]) < Rank(started[k])
       /\ started[k - 1] \in completed
  /\ pc = "done" => completed = Before("pack") \cup {"pack"}
  /\ pc = "failed" => started # <<>> /\ started[Len(started)] \notin completed

\* C4 happens: a run with both stages went through all five steps.
C4_Witness ==
  /\ pc = "done"
  /\ started = <<"load", "fetch", "prepare", "build", "pack">>

\* ------------------------------------------------------ ewe-build: claims
\* The step is a define_source call made while a Source is registered.
LaterDefineSource ==
  /\ nCalls' = nCalls + 1
  /\ lastCall'.fn = "define_source"
  /\ app_source # <<>>

Ok(v) == [ok |-> TRUE, val |-> v]
Err(e) == [ok |-> FALSE, err |-> e]

\* ArchList::deserialize: a non-empty set; with `any` only any / all are kept.
ArchList_deserialize(set) ==
  IF set = {} THEN Err(<<"invalid length 0, expected one or more architecture">>)
  ELSE IF "any" \in set THEN Ok(set \cap {"any", "all"})
  ELSE Ok(set)

\* ArchList::contains_all.
contains_all(arch) == "all" \in arch

\* ArchList::is_valid_for_package.
is_valid_for_package(arch) == IF contains_all(arch) THEN Cardinality(arch) = 1 ELSE TRUE

\* The keys of a file table that name a checksum, per ChecksumKind.
ChecksumKind == {"sha256sum", "sha512sum"}
ChecksumKind_source == {"sha256sum", "blake2sum"}

\* Url::path_segments: none for a URL that cannot be a base, else the
\* segments of the path, the last one empty when the path ends in a slash.
path_segments(url) == IF url.cannot_be_a_base THEN NoneOpt ELSE Some(url.path)

\* Path::file_name: the last component, none for an empty path, for the
\* root and for a path that ends in `..`.
Path_file_name(path) ==
  IF path.components = <<>> THEN NoneOpt
  ELSE IF path.components[Len(path.components)] \in {"..", "/"} THEN NoneOpt
  ELSE Some(path.components[Len(path.components)])

\* SourceLocation::file_name.
SourceLocation_file_name(loc) ==
  IF loc.kind = "url"
    THEN IF is_none(path_segments(loc.at)) THEN NoneOpt
         ELSE Some(path_segments(loc.at)[1][Len(path_segments(loc.at)[1])])
  ELSE Path_file_name(loc.at)

\* The flattened SourceLocation of a file table t: exactly one of url / path.
\* A second location key stays among the flattened entries and is no
\* checksum key.
SourceLocation_deserialize(t) ==
  IF is_none(t.url) /\ is_none(t.path)
    THEN Err(<<"no variant of enum SourceLocation found in flattened data">>)
  ELSE IF is_some(t.url) /\ is_some(t.path)
    THEN Err(<<"unknown variant">>)
  ELSE IF is_some(t.url) THEN Ok([kind |-> "url", at |-> t.url[1]])
  ELSE Ok([kind |-> "path", at |-> t.path[1]])

\* SourceFile::deserialize of types.rs. Its helper names location, rename,
\* checksums (every remaining key must be a ChecksumKind) and extract.
SourceFile_deserialize(t) ==
  LET loc == SourceLocation_deserialize(t) IN
  IF ~loc.ok THEN loc
  ELSE IF is_some(t.skip_checksum) \/ ~(t.sums \subseteq ChecksumKind)
    THEN Err(<<"unknown variant">>)
  ELSE IF is_none(t.rename) /\ is_none(SourceLocation_file_name(loc.val))
    THEN Err(<<"no file name given">>)
  ELSE Ok([location |-> loc.val,
           rename |-> t.rename,
           checksums |-> t.sums,
           extract |-> unwrap_or(t.extract, TRUE)])

\* SourceFile::deserialize of source.rs. Its helper names location, rename,
\* checksums and skip_checksum.
SourceFile_deserialize_source(t) ==
  LET loc == SourceLocation_deserialize(t) IN
  IF ~loc.ok THEN loc
  ELSE IF is_some(t.extract) \/ ~(t.sums \subseteq ChecksumKind_source)
    THEN Err(<<"unknown variant">>)
  ELSE IF is_none(t.rename) /\ is_none(SourceLocation_file_name(loc.val))
    THEN Err(<<"no file name given">>)
  ELSE IF ~unwrap_or(t.skip_checksum, FALSE) /\ t.sums = {}
    THEN Err(<<"no checksum given or skip_checksum">>)
  ELSE Ok([location |-> loc.val,
           rename |-> t.rename,
           checksums |-> t.sums,
           skip_checksum |-> unwrap_or(t.skip_checksum, FALSE)])

\* Vec<T>::deserialize: every element, the first error wins.
FirstErr(rs) == rs[CHOOSE k \in DOMAIN rs : ~rs[k].ok /\ \A j \in 1..(k - 1) : rs[j].ok]
Collect(rs) ==
  IF \E k \in DOMAIN rs : ~rs[k].ok THEN FirstErr(rs)
  ELSE Ok([k \in DOMAIN rs |-> rs[k].val])

\* BTreeSet<T>::extend where T compares by name: an element whose name is
\* in the set already is not inserted.
extend(set, more) == set \cup {x \in more : ~\E y \in set : y.name = x.name}

\* SourceInfo::deserialize: the PackageInfo fields, build_depends, source.
SourceInfo_deserialize(v) ==
  LET arch == ArchList_deserialize(v.architecture)
      fs == Collect([k \in DOMAIN v.source |-> SourceFile_deserialize(v.source[k])])
  IN
  IF ~arch.ok THEN arch
  ELSE IF ~fs.ok THEN fs
  ELSE Ok([inner |-> [name |-> v.name,
                      description |-> v.description,
                      version |-> v.version,
                      architecture |-> arch.val,
                      homepage |-> v.homepage,
                      provides |-> v.provides,
                      conflicts |-> v.conflicts,
                      depends |-> v.depends,
                      optional_depends |-> v.optional_depends],
           build_depends |-> v.build_depends,
           source |-> fs.val])

\* PackageInfoDelta::merge_into: every field is the delta's when it is given
\* and the Source's otherwise.
merge_into(delta, info) ==
  [name |-> unwrap_or(delta.name, info.name),
   description |-> unwrap_or(delta.description, info.description),
   version |-> unwrap_or(delta.version, info.version),
   architecture |-> unwrap_or(delta.architecture, info.architecture),
   homepage |-> IF is_some(delta.homepage) THEN delta.homepage ELSE info.homepage,
   provides |-> unwrap_or(delta.provides, info.provides),
   conflicts |-> unwrap_or(delta.conflicts, info.conflicts),
   depends |-> unwrap_or(delta.depends, info.depends),
   optional_depends |-> unwrap_or(delta.optional_depends, info.optional_depends)]

\* Execution::from_dynamic: a string is a Shell, a function pointer is a Fn,
\* every other value is a type mismatch.
Execution_from_dynamic(x) ==
  IF x = "str" THEN Ok("Shell")
  ELSE IF x = "fn" THEN Ok("Fn")
  ELSE Err(<<"mismatched data type", "String or Fn">>)

\* map.remove(name).map(Execution::from_dynamic).transpose().
remove_execution(x) ==
  IF is_none(x) THEN Ok(NoneOpt)
  ELSE IF Execution_from_dynamic(x[1]).ok THEN Ok(Some(Execution_from_dynamic(x[1]).val))
  ELSE Execution_from_dynamic(x[1])

\* fnptr_from_dynamic on an optional field: a function pointer or an error.
fnptr_from_dynamic(x) ==
  IF is_some(x) /\ x[1] # "fn" THEN Err(<<"mismatched data type", "Fn">>) ELSE Ok(x)

\* Package::from_dynamic_delta: the `pack` field is taken out, the rest is
\* deserialized as a PackageInfoDelta and merged into the Source's info.
Package_from_dynamic_delta(d, fallback) ==
  LET pk == fnptr_from_dynamic(d.pack)
      arch == IF is_some(d.architecture) THEN ArchList_deserialize(d.architecture[1])
              ELSE Ok({})
  IN
  IF ~pk.ok THEN pk
  ELSE IF ~arch.ok THEN arch
  ELSE Ok([info |-> merge_into(
                      [d EXCEPT !.architecture =
                         IF is_some(d.architecture) THEN Some(arch.val) ELSE NoneOpt],
                      fallback),
           pack |-> pk.val])

\* BTreeSet<Package>::insert: Packages compare by name, and an element equal
\* to one of the set is not inserted.
insert(packages, package) ==
  IF \E q \in packages : q.info.name = package.info.name THEN packages
  ELSE packages \cup {package}

RECURSIVE insert_all(_, _)
insert_all(packages, seq) ==
  IF seq = <<>> THEN packages
  ELSE insert_all(insert(packages, Head(seq)), Tail(seq))

\* Source::from_dynamic of build/types.rs.
Source_from_dynamic(v) ==
  LET execs == Collect(<<remove_execution(v.prepare), remove_execution(v.build),
                         remove_execution(v.check)>>)
      pk == fnptr_from_dynamic(v.pack)
      info == SourceInfo_deserialize(v)
      ps == Collect([k \in DOMAIN v.packages[1] |->
                       Package_from_dynamic_delta(v.packages[1][k], info.val.inner)])
  IN
  IF ~execs.ok THEN execs
  ELSE IF ~pk.ok THEN pk
  ELSE IF is_some(pk.val) /\ is_some(v.packages)
    THEN Err(<<"field pack and packages conflicts">>)
  ELSE IF ~info.ok THEN info
  ELSE IF is_some(v.packages)
    THEN IF ~ps.ok THEN ps
         ELSE Ok([info |-> info.val,
                  prepare |-> execs.val[1], build |-> execs.val[2], check |-> execs.val[3],
                  packages |-> insert_all({}, ps.val)])
  ELSE IF ~is_valid_for_package(info.val.inner.architecture)
    THEN Err(<<"architecture for package conflicts between all and other platforms">>)
  ELSE Ok([info |-> info.val,
           prepare |-> execs.val[1], build |-> execs.val[2], check |-> execs.val[3],
           packages |-> {[info |-> info.val.inner, pack |-> pk.val]}])

\* --------------------------------------------- recipe data model, source.rs
\* SourceMeta::deserialize: name, description, version, homepage, the
\* dependency sets and the source files; other keys are ignored.
SourceMeta_deserialize(v) ==
  LET fs == Collect([k \in DOMAIN v.source |-> SourceFile_deserialize_source(v.source[k])])
  IN
  IF ~fs.ok THEN fs
  ELSE Ok([name |-> v.name,
           description |-> v.description,
           version |-> v.version,
           homepage |-> v.homepage,
           build_depends |-> v.build_depends,
           depends |-> v.depends,
           optional_depends |-> v.optional_depends,
           source |-> fs.val])

\* The PackageMeta made of a SourceMeta's own fields.
PackageMeta_of(meta) ==
  [name |-> meta.name,
   description |-> meta.description,
   version |-> meta.version,
   homepage |-> meta.homepage,
   depends |-> meta.depends,
   optional_depends |-> meta.optional_depends]

\* Package::from_dynamic_and_source_meta: unset scalars are the Source's, the
\* dependency sets (empty when the delta gives none) are extended by the
\* Source's.
Package_from_dynamic_and_source_meta(d, source_meta) ==
  LET pk == fnptr_from_dynamic(d.pack) IN
  IF ~pk.ok THEN pk
  ELSE Ok([info |->
             [name |-> unwrap_or(d.name, source_meta.name),
              description |-> unwrap_or(d.description, source_meta.description),
              version |-> unwrap_or(d.version, source_meta.version),
              homepage |-> IF is_some(d.homepage) THEN d.homepage ELSE source_meta.homepage,
              depends |-> unwrap_or(d.depends, {}) \cup source_meta.depends,
              optional_depends |->
                extend(unwrap_or(d.optional_depends, {}), source_meta.optional_depends)],
           pack |-> pk.val])

\* Source::from_dynamic of source.rs.
Source_from_dynamic_source(v) ==
  LET pk == fnptr_from_dynamic(v.pack)
      meta == SourceMeta_deserialize(v)
      ps == Collect([k \in DOMAIN v.packages[1] |->
                       Package_from_dynamic_and_source_meta(v.packages[1][k], meta.val)])
  IN
  IF ~pk.ok THEN pk
  ELSE IF is_some(pk.val) /\ is_some(v.packages)
    THEN Err(<<"field pack and packages conflicts">>)
  ELSE IF ~meta.ok THEN meta
  ELSE IF is_some(v.packages)
    THEN IF ~ps.ok THEN ps
         ELSE Ok([info |-> meta.val, packages |-> insert_all({}, ps.val)])
  ELSE Ok([info |-> meta.val,
           packages |-> {[info |-> PackageMeta_of(meta.val), pack |-> pk.val]}])

\* ---------------------------------------------------------- recipe values
SeqUpTo(S, n) == UNION {[1..k -> S] : k \in 0..n}

\* The package deltas of a `packages` table. "a" is the Source's own name.
Deltas ==
  {[name |-> n,
    description |-> IF n = Some("b") THEN Some("bd") ELSE NoneOpt,
    version |-> NoneOpt,
    architecture |-> a,
    homepage |-> NoneOpt,
    provides |-> NoneOpt,
    conflicts |-> NoneOpt,
    depends |-> IF d THEN Some({"y"}) ELSE NoneOpt,
    optional_depends |->
      IF d THEN Some({[name |-> "p", description |-> Some("pd")]}) ELSE NoneOpt,
    pack |-> NoneOpt] :
     n \in {NoneOpt, Some("a"), Some("b")},
     a \in {NoneOpt, Some({"all", "x86_64"})},
     d \in BOOLEAN}

\* The URLs and paths of file tables: a file, a directory (the path ends in
\* a slash), a URL that cannot be a base, a path that ends in `..`.
Urls ==
  {[cannot_be_a_base |-> FALSE, path |-> <<"d", "f.tar.gz">>],
   [cannot_be_a_base |-> FALSE, path |-> <<"d", "">>],
   [cannot_be_a_base |-> TRUE, path |-> <<>>]}
Paths == {[components |-> <<"d", "g">>], [components |-> <<"d", "..">>]}

\* The file tables of a `source` list: the location keys given, rename,
\* checksum keys, flags.
FileTables ==
  {[url |-> l[1], path |-> l[2], rename |-> r, sums |-> c, skip_checksum |-> k,
    extract |-> e] :
     l \in {<<Some(u), NoneOpt>> : u \in Urls} \cup {<<NoneOpt, Some(q)>> : q \in Paths}
             \cup {<<NoneOpt, NoneOpt>>},
     r \in {NoneOpt, Some("r"), Some("")},
     c \in {{}, {"sha256sum"}, {"blake2sum"}},
     k \in {NoneOpt, Some(TRUE)},
     e \in {NoneOpt, Some(FALSE)}}

Recipe(a, d, pk, ps, fs) ==
  [name |-> "a",
   description |-> "sd",
   version |-> "1.0",
   architecture |-> a,
   homepage |-> NoneOpt,
   provides |-> {},
   conflicts |-> {},
   build_depends |-> {},
   depends |-> IF d THEN {"x"} ELSE {},
   optional_depends |-> IF d THEN {[name |-> "o", description |-> Some("od")]} ELSE {},
   source |-> fs,
   prepare |-> NoneOpt,
   build |-> NoneOpt,
   check |-> NoneOpt,
   pack |-> pk,
   packages |-> ps]

\* What a script can give for a stage: nothing, a string, a function
\* pointer, a value that is neither (an integer).
StageValues == {NoneOpt, Some("str"), Some("fn"), Some("int")}

\* The recipes that vary in their stage values: prepare, build, check, and
\* the pack of the top-level definition or of the one entry of `packages`.
StageRecipes ==
  {[Recipe({"all"}, FALSE, pk, ps, <<>>) EXCEPT !.prepare = p, !.build = b, !.check = c] :
     p \in StageValues, b \in StageValues, c \in StageValues,
     pk \in StageValues,
     ps \in {NoneOpt} \cup
            {Some(<<[d EXCEPT !.pack = q]>>) :
               d \in {x \in Deltas : x.name = Some("b") /\ x.architecture = NoneOpt
                                     /\ x.depends = NoneOpt},
               q \in StageValues}}

\* The recipe values loaded: recipes that vary in their package declarations,
\* and recipes that vary in their source files.
RecipeInputs ==
  {Recipe(a, d, pk, ps, <<>>) :
     a \in {{"x86_64"}, {"all"}, {"all", "x86_64"}, {"any", "all", "x86_64"}, {}},
     d \in BOOLEAN,
     pk \in {NoneOpt, Some("fn")},
     ps \in {NoneOpt} \cup {Some(t) : t \in SeqUpTo(Deltas, MaxPackages)}}
  \cup
  {Recipe({"x86_64"}, FALSE, NoneOpt, NoneOpt, fs) :
     fs \in SeqUpTo(FileTables, MaxSourceFiles)}
  \cup StageRecipes

\* ----------------------------------------------------------- recipe loading
StartLoad ==
  /\ value \in RecipeInputs
  /\ source = <<>>
  /\ legacy = <<>>

\* ArchList::contains: `any` and `all` match every host architecture.
ArchList_contains(arch, host) == \E x \in arch : x = "any" \/ x = "all" \/ x = host

\* The host architectures (uname -m) a recipe is loaded on.
HostArch == {"x86_64", "aarch64"}

\* BuildScript::new of build/script.rs from the evaluated value on: the value
\* goes through Source::from_dynamic, and the Source must list the host.
load_source(v, arch) ==
  LET s == Source_from_dynamic(v) IN
  IF s.ok /\ ~ArchList_contains(s.val.info.inner.architecture, arch)
    THEN Err(<<"source architecture does not contain", arch>>)
  ELSE s

\* BuildScript::new of build/script.rs loads the recipe value.
from_dynamic ==
  /\ source = <<>>
  /\ \E arch \in HostArch : source' = Some(load_source(value, arch))
  /\ UNCHANGED <<value, legacy>>
  /\ UNCHANGED notLoad

\* BuildScript::new of script.rs: the value goes through Source::from_dynamic
\* of source.rs.
from_dynamic_source ==
  /\ legacy = <<>>
  /\ legacy' = Some(Source_from_dynamic_source(value))
  /\ UNCHANGED <<value, source>>
  /\ UNCHANGED notLoad

NextLoad ==
  \/ from_dynamic
  \/ from_dynamic_source

InitLoad ==
  /\ StartLoad /\ IdleRun /\ IdleLua /\ IdleVersion /\ IdleArch /\ IdlePack
  /\ IdleRest

SpecLoad == InitLoad /\ [][NextLoad]_vars

\* ------------------------------------------------- recipe loading: claims
\* BuildScript::new of build/script.rs has accepted the recipe value.
Loaded == source # <<>> /\ source[1].ok

\* The name entry d of the `packages` table declares: its own, else the Source's.
DeclaredName(d) == IF d.name = <<>> THEN value.name ELSE d.name[1]

\* The recipe value has a `packages` table every entry of which converts,
\* and nothing else of the value is rejected.
TableConverts ==
  /\ value.packages # <<>>
  /\ value.pack = <<>>
  /\ value.architecture # {}
  /\ value.source = <<>>
  /\ \A k \in DOMAIN value.packages[1] : value.packages[1][k].architecture # <<{}>>

\* C6: a package declared under the name of a package declared before it is
\* rejected with an error that names the duplicate, never dropped silently.
C6_DuplicateRejected ==
  \A j, k \in 1..MaxPackages :
    (/\ source # <<>>
     /\ TableConverts
     /\ j < k
     /\ k \in DOMAIN value.packages[1]
     /\ DeclaredName(value.packages[1][j]) = DeclaredName(value.packages[1][k]))
    => /\ ~source[1].ok
       /\ \E n \in {"a", "b"} : source[1].err = <<"duplicate package", n>>

\* C7: a recipe that declares no package is rejected, so a loaded recipe has
\* at least one package.
C7_SomePackage == Loaded => source[1].val.packages # {}

\* The names of a set of optional dependencies.
Names(set) == {x.name : x \in set}

\* C8: the Package derived from an entry of the `packages` table has the
\* Source's value in every scalar the entry leaves unset, and its depends and
\* optional_depends are the unions of the entry's and the Source's.
C8_DeltaMerge ==
  (Loaded /\ value.packages # <<>>) =>
    \A k \in DOMAIN value.packages[1] :
      LET d == value.packages[1][k] IN
      (\A j \in 1..(k - 1) : DeclaredName(value.packages[1][j]) # DeclaredName(d)) =>
        \E p \in source[1].val.packages :
          /\ p.info.name = DeclaredName(d)
          /\ d.description = <<>> => p.info.description = value.description
          /\ d.version = <<>> => p.info.version = value.version
          /\ d.homepage = <<>> => p.info.homepage = value.homepage
          /\ d.architecture = <<>> =>
               p.info.architecture = source[1].val.info.inner.architecture
          /\ p.info.depends =
               (IF d.depends = <<>> THEN {} ELSE d.depends[1]) \cup value.depends
          /\ Names(p.info.optional_depends) =
               (IF d.optional_depends = <<>> THEN {} ELSE Names(d.optional_depends[1]))
                 \cup Names(value.optional_depends)

\* An architecture list that has `all` together with a concrete architecture.
MixesAll(arch) == "all" \in arch /\ arch \ {"all", "any"} # {}

\* C9: no Package of a loaded recipe, from the top-level definition or from
\* the `packages` table, has `all` together with a concrete architecture.
C9_ArchitectureValid ==
  Loaded => \A p \in source[1].val.packages : ~MixesAll(p.info.architecture)

\* C10: a file table without any checksum and without the skip flag does not
\* parse, so the recipe that lists it is not loaded.
C10_ChecksumOrSkip ==
  \A k \in 1..MaxSourceFiles :
    (/\ source # <<>>
     /\ k \in DOMAIN value.source
     /\ value.source[k].sums = {}
     /\ value.source[k].skip_checksum # <<TRUE>>)
    => ~source[1].ok

\* A stage value that is absent, a shell-command string or a callable.
ShellOrFn(x) == x \in {NoneOpt, Some("str"), Some("fn")}

\* The pack values of a recipe value: the top-level one and the entries'.
PackValues(v) ==
  {v.pack} \cup (IF v.packages = <<>> THEN {}
                 ELSE {v.packages[1][k].pack : k \in DOMAIN v.packages[1]})

\* The recipe value is one that varies in its stage values only, and does
\* not give both `pack` and `packages`.
StagesOnly == value \in StageRecipes /\ ~(value.pack # <<>> /\ value.packages # <<>>)

\* C21: each of prepare, build, check and every pack may be a shell-command
\* string or a callable; loading accepts both forms for each of the four
\* stage kinds and rejects only values that are neither.
C21_StageForms ==
  (source # <<>> /\ StagesOnly) =>
    (source[1].ok <=>
       /\ ShellOrFn(value.prepare) /\ ShellOrFn(value.build) /\ ShellOrFn(value.check)
       /\ \A x \in PackValues(value) : ShellOrFn(x))

\* SourceFile::file_name: rename, else the file name of the location.
SourceFile_file_name(f) ==
  IF is_some(f.rename) THEN f.rename[1] ELSE SourceLocation_file_name(f.location)[1]

\* C11: every SourceFile of a loaded recipe resolves to a non-empty file
\* name, rename if given and the last segment of the location otherwise.
C11_FileNameNonEmpty ==
  Loaded =>
    \A k \in DOMAIN source[1].val.info.source :
      SourceFile_file_name(source[1].val.info.source[k]) # ""

\* ------------------------------------------------------------- version.rs
\* std::cmp::Ordering.
Less == "Less"
Equal == "Equal"
Greater == "Greater"

\* Ord::cmp of two integers.
cmp(x, y) == IF x < y THEN Less ELSE IF x > y THEN Greater ELSE Equal

\* A str is the sequence of its characters. The characters of the model,
\* each with its byte.
Bytes ==
  "+" :> 43 @@ "-" :> 45 @@ "." :> 46 @@ ":" :> 58 @@ "_" :> 95 @@ "~" :> 126
  @@ "0" :> 48 @@ "1" :> 49 @@ "2" :> 50 @@ "3" :> 51 @@ "4" :> 52 @@ "5" :> 53
  @@ "6" :> 54 @@ "7" :> 55 @@ "8" :> 56 @@ "9" :> 57 @@ "a" :> 97 @@ "b" :> 98
  @@ "d" :> 100 @@ "e" :> 101 @@ "f" :> 102 @@ "g" :> 103 @@ "s" :> 115 @@ "t" :> 116

Digits == {"0", "1", "2", "3", "4", "5", "6", "7", "8", "9"}
Letters == {"a", "b", "d", "e", "f", "g", "s", "t"}
Chars == DOMAIN Bytes

\* char::is_numeric, char::is_ascii_alphabetic on the characters of the model.
is_numeric(c) == c \in Digits
is_ascii_alphabetic(c) == c \in Letters

\* fn is_allowed_in_version.
is_allowed_in_version(c) ==
  is_numeric(c) \/ is_ascii_alphabetic(c) \/ c \in {".", "+", "~"}

\* str::find with a predicate given as the set of characters it accepts:
\* the offset of the first such character.
find(str, accepted) ==
  IF \E i \in DOMAIN str : str[i] \in accepted
    THEN Some((CHOOSE i \in DOMAIN str :
                 str[i] \in accepted /\ \A j \in 1..(i - 1) : str[j] \notin accepted) - 1)
  ELSE NoneOpt

\* str::split_at.
split_at(str, mid) == <<SubSeq(str, 1, mid), SubSeq(str, mid + 1, Len(str))>>

\* str::split_once: around the first delimiter.
split_once(str, delimiter) ==
  IF is_none(find(str, {delimiter})) THEN NoneOpt
  ELSE Some(<<SubSeq(str, 1, find(str, {delimiter})[1]),
              SubSeq(str, find(str, {delimiter})[1] + 2, Len(str))>>)

\* str::rsplit_once: around the last delimiter.
rsplit_once(str, delimiter) ==
  IF \A i \in DOMAIN str : str[i] # delimiter THEN NoneOpt
  ELSE LET k == CHOOSE i \in DOMAIN str :
                  str[i] = delimiter /\ \A j \in (i + 1)..Len(str) : str[j] # delimiter
       IN Some(<<SubSeq(str, 1, k - 1), SubSeq(str, k + 1, Len(str))>>)

\* str::trim_start_matches of one character.
RECURSIVE trim_start_matches(_, _)
trim_start_matches(str, c) ==
  IF str # <<>> /\ Head(str) = c THEN trim_start_matches(Tail(str), c) ELSE str

\* Ord::cmp of two str: byte by byte, a proper prefix is smaller.
RECURSIVE str_cmp(_, _)
str_cmp(a, b) ==
  IF a = <<>> /\ b = <<>> THEN Equal
  ELSE IF a = <<>> THEN Less
  ELSE IF b = <<>> THEN Greater
  ELSE IF Head(a) # Head(b) THEN cmp(Bytes[Head(a)], Bytes[Head(b)])
  ELSE str_cmp(Tail(a), Tail(b))

\* The match after the loop of cmp_lexical with `~` above the end of the text.
cmp_lexical_rest_tilde_above(a, b, i) ==
  IF i <= Len(a) THEN Greater
  ELSE IF i <= Len(b) THEN Less
  ELSE Equal

\* The match after the loop of cmp_lexical with every text that goes on below
\* the text that has ended.
cmp_lexical_rest_end_above(a, b, i) ==
  IF i <= Len(a) /\ i > Len(b) THEN Less
  ELSE IF i > Len(a) /\ i <= Len(b) /\ b[i] = "~" THEN Greater
  ELSE IF i > Len(a) /\ i <= Len(b) THEN Less
  ELSE Equal

\* The match after the loop of cmp_lexical: what is left at offset i.
cmp_lexical_rest(a, b, i) ==
  IF i <= Len(a) /\ i > Len(b) /\ a[i] = "~" THEN Less
  ELSE IF i > Len(a) /\ i <= Len(b) /\ b[i] = "~" THEN Greater
  ELSE IF i <= Len(a) /\ i > Len(b) THEN Greater
  ELSE IF i > Len(a) /\ i <= Len(b) THEN Less
  ELSE Equal

\* The loop of cmp_lexical from offset i on.
RECURSIVE cmp_lexical_from(_, _, _)
cmp_lexical_from(a, b, i) ==
  IF i <= Len(a) /\ i <= Len(b)
    THEN IF a[i] = b[i] THEN cmp_lexical_from(a, b, i + 1)
         ELSE IF a[i] = "~" THEN Less
         ELSE IF b[i] = "~" THEN Greater
         ELSE IF is_ascii_alphabetic(a[i]) /\ ~is_ascii_alphabetic(b[i]) THEN Less
         ELSE IF ~is_ascii_alphabetic(a[i]) /\ is_ascii_alphabetic(b[i]) THEN Greater
         ELSE cmp(Bytes[a[i]], Bytes[b[i]])
  ELSE cmp_lexical_rest(a, b, i)

\* fn cmp_lexical; the assertions fail on a character that is neither a
\* letter nor one of . + ~
cmp_lexical(a, b) ==
  IF \E i \in DOMAIN a : ~is_ascii_alphabetic(a[i]) /\ a[i] \notin {".", "+", "~"}
    THEN "panic"
  ELSE IF \E i \in DOMAIN b : ~is_ascii_alphabetic(b[i]) /\ b[i] \notin {".", "+", "~"}
    THEN "panic"
  ELSE cmp_lexical_from(a, b, 1)

\* fn cmp_numerical that compares the runs with their leading zeros.
cmp_numerical_untrimmed(a, b) ==
  IF cmp(Len(a), Len(b)) = Equal THEN str_cmp(a, b) ELSE cmp(Len(a), Len(b))

\* fn cmp_numerical; the assertions fail on a character that is no digit.
cmp_numerical(a, b) ==
  IF (\E i \in DOMAIN a : ~is_numeric(a[i])) \/ (\E i \in DOMAIN b : ~is_numeric(b[i]))
    THEN "panic"
  ELSE LET ai == trim_start_matches(a, "0")
           bi == trim_start_matches(b, "0")
       IN IF cmp(Len(ai), Len(bi)) = Equal THEN str_cmp(ai, bi) ELSE cmp(Len(ai), Len(bi))

\* The loop of cmp_version: a run without digits, then a run of digits.
RECURSIVE cmp_version_loop(_, _)
cmp_version_loop(a, b) ==
  IF a = <<>> /\ b = <<>> THEN Equal
  ELSE LET as1 == split_at(a, unwrap_or(find(a, Digits), Len(a)))
           bs1 == split_at(b, unwrap_or(find(b, Digits), Len(b)))
           as2 == split_at(as1[2], unwrap_or(find(as1[2], Chars \ Digits), Len(as1[2])))
           bs2 == split_at(bs1[2], unwrap_or(find(bs1[2], Chars \ Digits), Len(bs1[2])))
           lexical == cmp_lexical(as1[1], bs1[1])
           numerical == cmp_numerical(as2[1], bs2[1])
       IN IF lexical # Equal THEN lexical
          ELSE IF numerical # Equal THEN numerical
          ELSE cmp_version_loop(as2[2], bs2[2])

\* fn cmp_version; the assertions fail on a character not allowed in versions.
cmp_version(a, b) ==
  IF (\E i \in DOMAIN a : ~is_allowed_in_version(a[i]))
       \/ (\E i \in DOMAIN b : ~is_allowed_in_version(b[i]))
    THEN "panic"
  ELSE cmp_version_loop(a, b)

\* The number a run of digits denotes.
RECURSIVE digits_value(_)
digits_value(str) ==
  IF str = <<>> THEN 0
  ELSE 10 * digits_value(SubSeq(str, 1, Len(str) - 1)) + (Bytes[str[Len(str)]] - Bytes["0"])

\* u32::MAX, as its decimal digits.
U32_MAX == <<"4", "2", "9", "4", "9", "6", "7", "2", "9", "5">>

\* str::parse::<u32>: an optional +, then one or more digits, within u32.
parse_u32(str) ==
  LET digits == IF str # <<>> /\ Head(str) = "+" THEN Tail(str) ELSE str IN
  IF str = <<>> THEN Err(<<"Epoch", "Empty">>)
  ELSE IF digits = <<>> \/ \E i \in DOMAIN digits : ~is_numeric(digits[i])
    THEN Err(<<"Epoch", "InvalidDigit">>)
  ELSE IF cmp_numerical(digits, U32_MAX) = Greater THEN Err(<<"Epoch", "PosOverflow">>)
  ELSE Ok(digits_value(digits))

\* The first character of str that is not allowed in versions, if any.
first_not_allowed(str) ==
  IF \A i \in DOMAIN str : is_allowed_in_version(str[i]) THEN NoneOpt
  ELSE Some(str[CHOOSE i \in DOMAIN str :
                  ~is_allowed_in_version(str[i])
                  /\ \A j \in 1..(i - 1) : is_allowed_in_version(str[j])])

\* The split of the text after the epoch with the first `-` as the separator.
split_first_dash(str) ==
  IF is_none(split_once(str, "-")) THEN <<str, NoneOpt>>
  ELSE <<split_once(str, "-")[1][1], Some(split_once(str, "-")[1][2])>>

\* The split of the text after the epoch: upstream and revision, the last
\* `-` is the separator.
split_revision(str) ==
  IF is_none(rsplit_once(str, "-")) THEN <<str, NoneOpt>>
  ELSE <<rsplit_once(str, "-")[1][1], Some(rsplit_once(str, "-")[1][2])>>

\* PackageVersion::from_str.
from_str(str) ==
  LET epoch_s == IF is_none(split_once(str, ":")) THEN <<NoneOpt, str>>
                 ELSE <<Some(split_once(str, ":")[1][1]), split_once(str, ":")[1][2]>>
      epoch == IF is_none(epoch_s[1]) THEN Ok(0) ELSE parse_u32(epoch_s[1][1])
      ur == split_revision(epoch_s[2])
  IN
  IF ~epoch.ok THEN epoch
  ELSE IF is_some(first_not_allowed(ur[1]))
    THEN Err(<<"Upstream", first_not_allowed(ur[1])[1]>>)
  ELSE IF is_some(ur[2]) /\ is_some(first_not_allowed(ur[2][1]))
    THEN Err(<<"Revision", first_not_allowed(ur[2][1])[1]>>)
  ELSE Ok([epoch |-> epoch.val, upstream |-> ur[1], revision |-> ur[2]])

\* Display of a u32: its decimal digits.
RECURSIVE u32_to_string(_)
u32_to_string(n) ==
  IF n < 10 THEN <<CHOOSE c \in Digits : Bytes[c] - Bytes["0"] = n>>
  ELSE u32_to_string(n \div 10) \o <<CHOOSE c \in Digits : Bytes[c] - Bytes["0"] = n % 10>>

\* Display of PackageVersion with the epoch written always.
to_string_epoch_always(v) ==
  u32_to_string(v.epoch) \o <<":">> \o v.upstream
    \o (IF is_none(v.revision) THEN <<>> ELSE <<"-">> \o v.revision[1])

\* Display of PackageVersion that leaves the revision out.
to_string_no_revision(v) ==
  IF v.epoch = 0 THEN v.upstream ELSE u32_to_string(v.epoch) \o <<":">> \o v.upstream

\* Display of PackageVersion.
to_string(v) ==
  IF v.epoch = 0 /\ is_none(v.revision) THEN v.upstream
  ELSE IF is_none(v.revision) THEN u32_to_string(v.epoch) \o <<":">> \o v.upstream
  ELSE IF v.epoch = 0 THEN v.upstream \o <<"-">> \o v.revision[1]
  ELSE u32_to_string(v.epoch) \o <<":">> \o v.upstream \o <<"-">> \o v.revision[1]

\* Ord::cmp of PackageVersion with the upstream compared before the epoch.
Version_cmp_upstream_first(a, b) ==
  IF cmp_version(a.upstream, b.upstream) # Equal THEN cmp_version(a.upstream, b.upstream)
  ELSE IF cmp(a.epoch, b.epoch) # Equal THEN cmp(a.epoch, b.epoch)
  ELSE cmp_version(unwrap_or(a.revision, <<>>), unwrap_or(b.revision, <<>>))

\* Ord::cmp of PackageVersion.
Version_cmp(a, b) ==
  LET epoch == cmp(a.epoch, b.epoch)
      upstream == cmp_version(a.upstream, b.upstream)
  IN IF epoch # Equal THEN epoch
     ELSE IF upstream # Equal THEN upstream
     ELSE cmp_version(unwrap_or(a.revision, <<>>), unwrap_or(b.revision, <<>>))

\* All texts of at most n characters of a set.
StrUpTo(chars, n) == UNION {[1..k -> chars] : k \in 0..n}

\* ------------------------------------------------ version.rs: parse, format
\* The characters of the short texts parsed: digits, a letter, the two
\* separators, a sign and a character no version allows.
TextChars == {"0", "1", "a", "-", ":", "_", "+"}

\* Texts of the tests of version.rs, an epoch above u32::MAX and a large one.
SampleTexts ==
  {<<"1", ":", "2", ".", "3", "3", "+", "b", "e", "t", "a", "1", "-", "4">>,
   <<"2", ".", "3", "3", "-", "b", "e", "t", "a", "1", "-", "4">>,
   <<"2", ".", "3", "3", "+", "b", "e", "t", "a", "1", "-", "4">>,
   <<"2", ".", "3", "3", "+", "b", "e", "t", "a", "1">>,
   <<"4", "2", "9", "4", "9", "6", "7", "2", "9", "6", ":", "1">>,
   <<"2", "1", "4", "7", "4", "8", "3", "6", "4", "7", ":", "1", "-", "1">>}

Texts == StrUpTo(TextChars, MaxTextLen) \cup SampleTexts

StartParse ==
  /\ text \in Texts
  /\ parsed = <<>>
  /\ formatted = <<>>
  /\ reparsed = <<>>

\* text.parse::<PackageVersion>().
parse ==
  /\ parsed = <<>>
  /\ parsed' = Some(from_str(text))
  /\ UNCHANGED <<text, formatted, reparsed>>
  /\ UNCHANGED notParse

\* version.to_string() of the parsed version.
display ==
  /\ parsed # <<>>
  /\ parsed[1].ok
  /\ formatted = <<>>
  /\ formatted' = Some(to_string(parsed[1].val))
  /\ UNCHANGED <<text, parsed, reparsed>>
  /\ UNCHANGED notParse

\* The formatted text parsed again.
reparse ==
  /\ formatted # <<>>
  /\ reparsed = <<>>
  /\ reparsed' = Some(from_str(formatted[1]))
  /\ UNCHANGED <<text, parsed, formatted>>
  /\ UNCHANGED notParse

NextParse ==
  \/ parse
  \/ display
  \/ reparse

InitParse ==
  /\ StartParse /\ IdleRun /\ IdleLua /\ IdleLoad /\ IdleCmp /\ IdleNum /\ IdleArch /\ IdlePack
  /\ IdleRest

SpecParse == InitParse /\ [][NextParse]_vars

\* C16: the formatted text of a parsed version parses, to a version with the
\* same epoch, upstream and revision.
C16_RoundTrip ==
  reparsed # <<>> => reparsed[1].ok /\ reparsed[1].val = parsed[1].val

\* A round trip of a version with an epoch and a revision whose formatted
\* text is not the text parsed.
C16_Witness ==
  /\ reparsed # <<>>
  /\ parsed[1].val.epoch > 0
  /\ parsed[1].val.revision # <<>>
  /\ formatted[1] # text

\* How many times character c is in str.
Occurrences(str, c) == Cardinality({i \in DOMAIN str : str[i] = c})

\* The text after the epoch: after the first colon when there is one.
AfterEpoch(str) ==
  IF \A i \in DOMAIN str : str[i] # ":" THEN str
  ELSE SubSeq(str, 1 + (CHOOSE i \in DOMAIN str :
                          str[i] = ":" /\ \A j \in 1..(i - 1) : str[j] # ":"), Len(str))

\* The text before the last `-` of str.
BeforeLastDash(str) ==
  SubSeq(str, 1, (CHOOSE i \in DOMAIN str :
                    str[i] = "-" /\ \A j \in (i + 1)..Len(str) : str[j] # "-") - 1)

\* An accepted text has no `-` in upstream or revision, and the two around
\* one `-` are the text after the epoch.
AcceptedSplit ==
  (parsed # <<>> /\ parsed[1].ok) =>
    /\ Occurrences(parsed[1].val.upstream, "-") = 0
    /\ parsed[1].val.revision # <<>> =>
         /\ Occurrences(parsed[1].val.revision[1], "-") = 0
         /\ AfterEpoch(text) = parsed[1].val.upstream \o <<"-">> \o parsed[1].val.revision[1]
    /\ parsed[1].val.revision = <<>> => AfterEpoch(text) = parsed[1].val.upstream

\* C17 as stated: every text with two or more `-` fails with the Upstream
\* error for `-`, and an accepted text has no `-` in upstream or revision.
C17_Original ==
  /\ AcceptedSplit
  /\ (parsed # <<>> /\ Occurrences(text, "-") >= 2) => parsed[1] = Err(<<"Upstream", "-">>)

\* C17: the text after the epoch is split at its last `-`. When the epoch
\* parses, a text with two or more `-` after the epoch fails with the
\* Upstream error for the first character of the text before the last `-`
\* that no version allows, which is `-` when only allowed characters come
\* before the first `-`; an accepted text has no `-` in upstream or revision.
C17_SplitAtLastDash ==
  /\ AcceptedSplit
  /\ (/\ parsed # <<>>
      /\ Occurrences(AfterEpoch(text), "-") >= 2
      /\ parsed[1] \notin {Err(<<"Epoch", k>>) : k \in {"Empty", "InvalidDigit", "PosOverflow"}})
     => /\ ~parsed[1].ok
        /\ parsed[1].err[1] = "Upstream"
        /\ parsed[1].err[2] = first_not_allowed(BeforeLastDash(AfterEpoch(text)))[1]
        /\ (\A i \in DOMAIN AfterEpoch(text) :
              (\A j \in 1..i : AfterEpoch(text)[j] # "-")
                => is_allowed_in_version(AfterEpoch(text)[i]))
           => parsed[1].err[2] = "-"

\* The text 2.33-beta1-4 of the tests was parsed and failed for `-`.
C17_Witness ==
  /\ text = <<"2", ".", "3", "3", "-", "b", "e", "t", "a", "1", "-", "4">>
  /\ parsed = <<Err(<<"Upstream", "-">>)>>

\* ----------------------------------------------- version.rs: comparison
\* The characters of the short upstream versions compared.
UpstreamChars == {"0", "1", "a", "~", "."}

Version(e, u, r) == [epoch |-> e, upstream |-> u, revision |-> r]

\* parse_ver(s).unwrap() of the tests.
ver(str) == from_str(str).val

\* Versions of epoch 0 without revision, of every short upstream.
PlainVersions == {Version(0, u, NoneOpt) : u \in StrUpTo(UpstreamChars, MaxUpstreamLen)}

\* Versions with and without epoch and revision.
FramedVersions ==
  {Version(e, u, r) :
     e \in {0, 1},
     u \in {<<>>, <<"1">>, <<"1", "~">>},
     r \in {NoneOpt, Some(<<>>), Some(<<"1">>), Some(<<"~">>)}}

\* The versions the tests of version.rs and the documentation compare.
SampleVersions ==
  {ver(<<"1", ".", "0", "~", "b", "e", "t", "a", "1">>), ver(<<"1", ".", "0">>), ver(<<"1", ".", "0", ".", "1">>),
   ver(<<"1", ":", "0">>), ver(<<"9", "9">>),
   ver(<<"1", ".", "1", "4", ".", "5", "1", "~", "b", "e", "t", "a", "4", "-", "9", "9", "9">>), ver(<<"1", ".", "1", "4", ".", "5", "1", "-", "1">>),
   ver(<<"0", ".", "1", "2", ".", "1", "0", "+", "d", "f", "s", "g", "1", "-", "3">>), ver(<<"0", ".", "1", "2", ".", "1", "0", "+", "d", "f", "s", "g", "0", "1", "-", "3">>)}

Versions == PlainVersions \cup FramedVersions \cup SampleVersions

\* The versions a third operand is drawn from.
Pivots ==
  {Version(0, <<>>, NoneOpt), Version(0, <<"1">>, NoneOpt), Version(0, <<"a">>, NoneOpt),
   Version(0, <<"~">>, NoneOpt), Version(0, <<".">>, NoneOpt),
   Version(1, <<>>, NoneOpt), Version(0, <<"1">>, Some(<<"1">>)),
   ver(<<"1", ".", "0", ".", "1">>)}

StartCompare ==
  /\ va \in Versions
  /\ vb \in Versions
  /\ vc \in Pivots
  /\ ord = <<>>

\* a.cmp(&b) for the pairs of the three versions.
compare ==
  /\ ord = <<>>
  /\ ord' = Some([aa |-> Version_cmp(va, va),
                  ab |-> Version_cmp(va, vb),
                  ba |-> Version_cmp(vb, va),
                  bc |-> Version_cmp(vb, vc),
                  cb |-> Version_cmp(vc, vb),
                  ac |-> Version_cmp(va, vc),
                  ca |-> Version_cmp(vc, va)])
  /\ UNCHANGED <<va, vb, vc>>
  /\ UNCHANGED notCmp

NextCompare == compare

InitCompare ==
  /\ StartCompare /\ IdleRun /\ IdleLua /\ IdleLoad /\ IdleParse /\ IdleNum /\ IdleArch /\ IdlePack
  /\ IdleRest

SpecCompare == InitCompare /\ [][NextCompare]_vars

\* C12: the comparison is lexicographic over (epoch, upstream, revision): the
\* epochs decide when they differ, then the upstream comparison unless it is
\* Equal, then the revisions, an absent revision being the empty text.
C12_Lexicographic ==
  ord # <<>> =>
    /\ va.epoch > vb.epoch => ord[1].ab = Greater
    /\ va.epoch < vb.epoch => ord[1].ab = Less
    /\ (va.epoch = vb.epoch /\ cmp_version(va.upstream, vb.upstream) # Equal)
         => ord[1].ab = cmp_version(va.upstream, vb.upstream)
    /\ (va.epoch = vb.epoch /\ cmp_version(va.upstream, vb.upstream) = Equal)
         => ord[1].ab = cmp_version(IF va.revision = <<>> THEN <<>> ELSE va.revision[1],
                                    IF vb.revision = <<>> THEN <<>> ELSE vb.revision[1])

\* 1:0 was compared with 99: the larger epoch wins against the upstream.
C12_Witness ==
  /\ ord # <<>>
  /\ va = ver(<<"1", ":", "0">>)
  /\ vb = ver(<<"9", "9">>)
  /\ ord[1].ab = Greater
  /\ cmp_version(va.upstream, vb.upstream) = Less

\* Ordering::reverse.
Reverse(o) == IF o = Less THEN Greater ELSE IF o = Greater THEN Less ELSE o

Le(o) == o \in {Less, Equal}

\* C13: the comparison is a consistent total order: a version is Equal to
\* itself, compare(a, b) is the reverse of compare(b, a), and <= is
\* transitive (checked for every order of the three versions); in particular
\* 1.0~beta1 < 1.0 < 1.0.1.
C13_TotalOrder ==
  ord # <<>> =>
    /\ \A k \in DOMAIN ord[1] : ord[1][k] \in {Less, Equal, Greater}
    /\ ord[1].aa = Equal
    /\ ord[1].ab = Reverse(ord[1].ba)
    /\ ord[1].bc = Reverse(ord[1].cb)
    /\ ord[1].ac = Reverse(ord[1].ca)
    /\ (Le(ord[1].ab) /\ Le(ord[1].bc)) => Le(ord[1].ac)
    /\ (Le(ord[1].ac) /\ Le(ord[1].cb)) => Le(ord[1].ab)
    /\ (Le(ord[1].ba) /\ Le(ord[1].ac)) => Le(ord[1].bc)
    /\ (Le(ord[1].bc) /\ Le(ord[1].ca)) => Le(ord[1].ba)
    /\ (Le(ord[1].ca) /\ Le(ord[1].ab)) => Le(ord[1].cb)
    /\ (Le(ord[1].cb) /\ Le(ord[1].ba)) => Le(ord[1].ca)
    /\ (va = ver(<<"1", ".", "0", "~", "b", "e", "t", "a", "1">>) /\ vb = ver(<<"1", ".", "0">>) /\ vc = ver(<<"1", ".", "0", ".", "1">>))
         => (ord[1].ab = Less /\ ord[1].bc = Less /\ ord[1].ac = Less)

\* 1.0~beta1, 1.0 and 1.0.1 were compared.
C13_Witness ==
  /\ ord # <<>>
  /\ va = ver(<<"1", ".", "0", "~", "b", "e", "t", "a", "1">>)
  /\ vb = ver(<<"1", ".", "0">>)
  /\ vc = ver(<<"1", ".", "0", ".", "1">>)

\* Text x is text u followed by a suffix that starts with `~`.
TildeSuffixed(x, u) ==
  /\ Len(x) > Len(u)
  /\ SubSeq(x, 1, Len(u)) = u
  /\ x[Len(u) + 1] = "~"

\* C14: a version whose upstream is u followed by a suffix starting with `~`
\* is strictly less than a version of the same epoch with upstream u,
\* whatever the two revisions are.
C14_TildeBelow ==
  (ord # <<>> /\ va.epoch = vb.epoch /\ TildeSuffixed(vb.upstream, va.upstream))
    => (ord[1].ba = Less /\ ord[1].ab = Greater)

\* A version with a `~` suffix and the larger revision was compared with the
\* version without the suffix and without revision.
C14_Witness ==
  /\ ord # <<>>
  /\ va = Version(1, <<"1">>, NoneOpt)
  /\ vb = Version(1, <<"1", "~">>, Some(<<"1">>))
  /\ ord[1].ba = Less

\* ---------------------------------------------- version.rs: cmp_numerical
\* The digits of the runs compared.
RunDigits == {"0", "1", "2", "9"}

\* The runs of digits compared, the empty run and runs with leading zeros
\* among them, and the runs of the tests.
Runs ==
  StrUpTo(RunDigits, MaxDigits)
  \cup {<<"1", "9", "2", "6", "0", "8", "1", "7">>, <<"1", "9", "5", "3", "0", "6", "1", "5">>}

\* A version text with the run of digits in the middle.
around(run) == <<"1", ".", "a">> \o run \o <<"+", "b">>

StartNumeric ==
  /\ na \in Runs
  /\ nb \in Runs
  /\ nord = <<>>

\* cmp_numerical of the two runs, and cmp_version of two version texts that
\* differ in that run only.
numerical ==
  /\ nord = <<>>
  /\ nord' = Some([runs |-> cmp_numerical(na, nb),
                   versions |-> cmp_version(around(na), around(nb))])
  /\ UNCHANGED <<na, nb>>
  /\ UNCHANGED notNum

NextNumeric == numerical

InitNumeric ==
  /\ StartNumeric /\ IdleRun /\ IdleLua /\ IdleLoad /\ IdleParse /\ IdleCmp /\ IdleArch /\ IdlePack
  /\ IdleRest

SpecNumeric == InitNumeric /\ [][NextNumeric]_vars

\* The natural number a run of digits denotes, the empty run denoting 0.
RECURSIVE Denotes(_)
Denotes(run) ==
  IF run = <<>> THEN 0
  ELSE 10 * Denotes(SubSeq(run, 1, Len(run) - 1))
       + (CHOOSE d \in 0..9 : <<"0", "1", "2", "3", "4", "5", "6", "7", "8", "9">>[d + 1]
                                = run[Len(run)])

\* The run without its leading zeros.
RECURSIVE Stripped(_)
Stripped(run) == IF run # <<>> /\ run[1] = "0" THEN Stripped(Tail(run)) ELSE run

\* C15: cmp_numerical of two runs of digits is the comparison of the numbers
\* they denote, the empty run denoting 0, and versions that differ only in
\* leading zeros of a run of digits (a run both versions have) compare Equal.
C15_Numerical ==
  nord # <<>> =>
    /\ Denotes(na) < Denotes(nb) => nord[1].runs = Less
    /\ Denotes(na) = Denotes(nb) => nord[1].runs = Equal
    /\ Denotes(na) > Denotes(nb) => nord[1].runs = Greater
    /\ (na # <<>> /\ nb # <<>> /\ Stripped(na) = Stripped(nb)) => nord[1].versions = Equal

\* Runs that differ in leading zeros were compared, the smaller number being
\* the longer text.
C15_Witness ==
  /\ nord # <<>>
  /\ Len(na) > Len(nb)
  /\ Denotes(na) < Denotes(nb)
  /\ nord[1].runs = Less
  /\ nord[1].versions = Less

\* ------------------------------------------ fetch.rs: ArchiveKind
\* str::rsplit: the pieces of str between the delimiters, the last one first.
RECURSIVE rsplit(_, _)
rsplit(str, delimiter) ==
  IF is_none(rsplit_once(str, delimiter)) THEN <<str>>
  ELSE <<rsplit_once(str, delimiter)[1][2]>> \o rsplit(rsplit_once(str, delimiter)[1][1], delimiter)

\* The arms of the match of from_file_name: the last segment, the segment
\* before it when the arm asks for one, the kind and ext_len.
Arms ==
  <<[last |-> <<"t", "a", "r">>, before |-> NoneOpt, kind |-> "Tar", ext_len |-> 4],
    [last |-> <<"t", "g", "z">>, before |-> NoneOpt, kind |-> "TarGz", ext_len |-> 4],
    [last |-> <<"t", "x", "z">>, before |-> NoneOpt, kind |-> "TarXz", ext_len |-> 4],
    [last |-> <<"t", "b", "z", "2">>, before |-> NoneOpt, kind |-> "TarBz2", ext_len |-> 5],
    [last |-> <<"t", "z", "s", "t">>, before |-> NoneOpt, kind |-> "TarZst", ext_len |-> 5],
    [last |-> <<"z", "i", "p">>, before |-> NoneOpt, kind |-> "Zip", ext_len |-> 4],
    [last |-> <<"d", "e", "b">>, before |-> NoneOpt, kind |-> "Deb", ext_len |-> 4],
    [last |-> <<"g", "z">>, before |-> Some(<<"t", "a", "r">>), kind |-> "TarGz", ext_len |-> 7],
    [last |-> <<"x", "z">>, before |-> Some(<<"t", "a", "r">>), kind |-> "TarXz", ext_len |-> 7],
    [last |-> <<"b", "z", "2">>, before |-> Some(<<"t", "a", "r">>), kind |-> "TarBz2", ext_len |-> 8],
    [last |-> <<"z", "s", "t">>, before |-> Some(<<"t", "a", "r">>), kind |-> "TarZst", ext_len |-> 8]>>

\* Arm k matches the segments (the last one first).
arm_matches(k, segments) ==
  /\ Arms[k].last = segments[1]
  /\ is_some(Arms[k].before) => (Len(segments) > 1 /\ segments[2] = Arms[k].before[1])

\* ArchiveKind::from_file_name. name.len() - ext_len is a subtraction of
\* usize: below zero it panics, or wraps and the slice panics.
from_file_name(name) ==
  LET segments == rsplit(name, ".") IN
  IF \A k \in DOMAIN Arms : ~arm_matches(k, segments)
    THEN [panic |-> FALSE, val |-> NoneOpt]
  ELSE LET arm == Arms[CHOOSE k \in DOMAIN Arms :
                         arm_matches(k, segments)
                         /\ \A j \in 1..(k - 1) : ~arm_matches(j, segments)]
       IN IF Len(name) < arm.ext_len THEN [panic |-> TRUE, val |-> NoneOpt]
          ELSE [panic |-> FALSE,
                val |-> Some(<<arm.kind, SubSeq(name, 1, Len(name) - arm.ext_len)>>)]

\* The segments the file names of the model are made of: the extensions of
\* the table, a word, and the empty segment.
NameSegments ==
  {<<"t", "a", "r">>, <<"t", "g", "z">>, <<"t", "x", "z">>, <<"t", "b", "z", "2">>, <<"t", "z", "s", "t">>, <<"z", "i", "p">>, <<"d", "e", "b">>, <<"g", "z">>, <<"x", "z">>, <<"b", "z", "2">>, <<"z", "s", "t">>, <<"f", "o", "o">>, <<>>}

\* The segments joined by dots.
RECURSIVE join(_)
join(segments) ==
  IF Len(segments) = 1 THEN segments[1]
  ELSE segments[1] \o <<".">> \o join(Tail(segments))

FileNames ==
  {join(segments) : segments \in UNION {[1..k -> NameSegments] : k \in 1..MaxSegments}}

StartArchive ==
  /\ fname \in FileNames
  /\ akind = <<>>

\* ArchiveKind::from_file_name(file name), as fetch_single_source_inner calls it.
classify ==
  /\ akind = <<>>
  /\ akind' = Some(from_file_name(fname))
  /\ UNCHANGED fname
  /\ UNCHANGED notArch

NextArchive == classify

InitArchive ==
  /\ StartArchive /\ IdleRun /\ IdleLua /\ IdleLoad /\ IdleVersion /\ IdlePack
  /\ IdleRest

SpecArchive == InitArchive /\ [][NextArchive]_vars

\* The table of dotted suffixes and their kinds.
SuffixTable ==
  {<<<<".", "t", "a", "r">>, "Tar">>,
   <<<<".", "t", "a", "r">> \o <<".", "g", "z">>, "TarGz">>, <<<<".", "t", "g", "z">>, "TarGz">>,
   <<<<".", "t", "a", "r">> \o <<".", "x", "z">>, "TarXz">>, <<<<".", "t", "x", "z">>, "TarXz">>,
   <<<<".", "t", "a", "r">> \o <<".", "b", "z", "2">>, "TarBz2">>, <<<<".", "t", "b", "z", "2">>, "TarBz2">>,
   <<<<".", "t", "a", "r">> \o <<".", "z", "s", "t">>, "TarZst">>, <<<<".", "t", "z", "s", "t">>, "TarZst">>,
   <<<<".", "z", "i", "p">>, "Zip">>, <<<<".", "d", "e", "b">>, "Deb">>}

EndsWith(str, suffix) ==
  Len(str) >= Len(suffix) /\ SubSeq(str, Len(str) - Len(suffix) + 1, Len(str)) = suffix

\* C18: the classification returns a kind exactly when the name ends in a
\* dotted suffix of the table, the longest one winning, with the name
\* without that suffix as directory name; every other name, a bare `tar` or
\* `tar.gz` included, is an opaque file, and no name makes it fail.
C18_ArchiveKind ==
  akind # <<>> =>
    LET matching == {e \in SuffixTable : EndsWith(fname, e[1])} IN
    /\ ~akind[1].panic
    /\ matching = {} => akind[1].val = <<>>
    /\ matching # {} =>
         \E e \in matching :
           /\ \A o \in matching : Len(o[1]) <= Len(e[1])
           /\ akind[1].val = <<<<e[2], SubSeq(fname, 1, Len(fname) - Len(e[1]))>>>>

\* ------------------------------------------- the packaging child process
\* The user ids the process runs under: root (or fakeroot), and a user.
Uids == {0, 1000}

\* The package lists a re-parsed recipe gives: a package is its name and
\* whether it has a pack stage.
PackageLists ==
  {<<>>}
  \cup {<<[name |-> "a", pack |-> f]>> : f \in BOOLEAN}
  \cup {<<[name |-> "a", pack |-> f], [name |-> "b", pack |-> g]>> : f, g \in BOOLEAN}

\* The paths a pack stage can leave beneath the package directory; d and e
\* are directories, the other names are files.
AllPaths ==
  {<<"d">>, <<"d", "f">>, <<"d", "e">>, <<"d", "e", "f">>, <<"f">>, <<"metadata.json">>}

\* What a pack stage can leave: a path is there only with its parent.
Trees ==
  {t \in SUBSET AllPaths : \A q \in t : Len(q) > 1 => SubSeq(q, 1, Len(q) - 1) \in t}

\* is_dir() of the metadata of an entry, which follows a symlink.
is_dir_follow(path) == path[Len(path)] \in {"d", "e", "l"}

\* file_type.is_dir() of an entry: DirEntry::file_type does not follow a
\* symlink.
is_dir(path) == path[Len(path)] \in {"d", "e"}

\* The directory a path names once its symlinks are followed.
resolve(path) ==
  IF path # <<>> /\ path[1] = "l" THEN <<"d">> \o Tail(path) ELSE path

\* The entries of path.read_dir(): the entries of the directory the path
\* names, each as path joined with its file name.
read_dir(tree, path) ==
  {Append(path, q[Len(q)]) :
     q \in {t \in tree : Len(t) = Len(resolve(path)) + 1
                         /\ SubSeq(t, 1, Len(resolve(path))) = resolve(path)}}

\* The orders read_dir can yield a set of entries in.
Orders(set) ==
  {q \in [1..Cardinality(set) -> set] : \A i, j \in DOMAIN q : i # j => q[i] # q[j]}

StartPack ==
  /\ uid \in Uids
  /\ ppc = "check"
  /\ parses = 0
  /\ pack_packages = <<>>
  /\ todo = <<>>
  /\ cur = <<>>
  /\ root = {}
  /\ stack = <<>>
  /\ paths = <<>>
  /\ stages = <<>>
  /\ archives = <<>>

\* run_package without the check of the user id.
run_package_unchecked ==
  /\ ppc = "check"
  /\ ppc' = "new"
  /\ UNCHANGED <<uid, parses, pack_packages, todo, cur, root, stack, paths, stages, archives>>
  /\ UNCHANGED notPack

\* run_package: libc::getuid() != 0 bails.
run_package ==
  /\ ppc = "check"
  /\ ppc' = IF uid # 0 THEN "failed" ELSE "new"
  /\ UNCHANGED <<uid, parses, pack_packages, todo, cur, root, stack, paths, stages, archives>>
  /\ UNCHANGED notPack

\* PackScript::new: the recipe is compiled, evaluated and parsed again.
PackScript_new ==
  /\ ppc = "new"
  /\ parses' = parses + 1
  /\ \/ \E list \in PackageLists :
          /\ pack_packages' = list
          /\ todo' = list
          /\ ppc' = "next"
     \/ /\ ppc' = "failed"
        /\ UNCHANGED <<pack_packages, todo>>
  /\ UNCHANGED <<uid, cur, root, stack, paths, stages, archives>>
  /\ UNCHANGED notPack

\* The archive file File::create makes for a package: no entry yet.
created(package, tree) ==
  [package |-> package.name, pack |-> package.pack, root |-> tree,
   entries |-> <<>>, walked |-> <<>>, finished |-> FALSE]

\* The body of the loop with the archive file made before the pack stage.
pack_package_create_first ==
  /\ ppc = "next"
  /\ todo # <<>>
  /\ cur' = Head(todo)
  /\ todo' = Tail(todo)
  /\ archives' = Append(archives, created(Head(todo), {}))
  /\ stages' = IF Head(todo).pack THEN Append(stages, Head(todo).name) ELSE stages
  /\ \/ /\ ppc' = "failed"
        /\ UNCHANGED <<root, stack, paths>>
     \/ /\ root' = {}
        /\ stack' = <<[path |-> <<>>, is_dir |-> TRUE]>>
        /\ paths' = <<>>
        /\ ppc' = "walk"
  /\ UNCHANGED <<uid, parses, pack_packages>>
  /\ UNCHANGED notPack

\* PackScript::pack, the body of the loop up to the walk: the package
\* directory, the pack stage when the package has one, the archive file.
pack_package ==
  /\ ppc = "next"
  /\ todo # <<>>
  /\ cur' = Head(todo)
  /\ todo' = Tail(todo)
  /\ \/ /\ ppc' = "failed"
        /\ UNCHANGED <<stages, root, archives, stack, paths>>
     \/ /\ Head(todo).pack
        /\ stages' = Append(stages, Head(todo).name)
        /\ ppc' = "failed"
        /\ UNCHANGED <<root, archives, stack, paths>>
     \/ /\ stages' = IF Head(todo).pack THEN Append(stages, Head(todo).name) ELSE stages
        /\ \E tree \in (IF Head(todo).pack THEN Trees ELSE {{}}) :
             /\ root' = tree
             /\ \/ /\ ppc' = "failed"
                   /\ UNCHANGED <<archives, stack, paths>>
                \/ /\ archives' = Append(archives, created(Head(todo), tree))
                   /\ stack' = <<[path |-> <<>>, is_dir |-> TRUE]>>
                   /\ paths' = <<>>
                   /\ ppc' = "walk"
  /\ UNCHANGED <<uid, parses, pack_packages>>
  /\ UNCHANGED notPack

\* One turn of the loop `while let Some((path, is_dir)) = stack.pop()`.
walk ==
  /\ ppc = "walk"
  /\ stack # <<>>
  /\ LET top == stack[Len(stack)]
         rest == SubSeq(stack, 1, Len(stack) - 1)
     IN \/ /\ top.is_dir
           /\ ppc' = "failed"
           /\ UNCHANGED <<stack, paths>>
        \/ /\ \E order \in (IF top.is_dir THEN Orders(read_dir(root, top.path)) ELSE {<<>>}) :
                stack' = rest \o [i \in DOMAIN order |->
                                    [path |-> order[i], is_dir |-> is_dir(order[i])]]
           /\ paths' = IF top.path # <<>> THEN Append(paths, top.path) ELSE paths
           /\ UNCHANGED ppc
  /\ UNCHANGED <<uid, parses, pack_packages, todo, cur, root, stages, archives>>
  /\ UNCHANGED notPack

\* One turn of the loop `for path in paths`: append_path_with_name with the
\* path relative to the package directory.
append_path ==
  /\ ppc = "walk"
  /\ stack = <<>>
  /\ Len(archives[Len(archives)].entries) < Len(paths)
  /\ \/ /\ ppc' = "failed"
        /\ UNCHANGED archives
     \/ /\ archives' =
             [archives EXCEPT ![Len(archives)].entries =
                Append(@, [name |-> paths[Len(@) + 1], synthetic |-> FALSE])]
        /\ UNCHANGED ppc
  /\ UNCHANGED <<uid, parses, pack_packages, todo, cur, root, stack, paths, stages>>
  /\ UNCHANGED notPack

\* The end of the loop body with the metadata entry written first.
append_metadata_first ==
  /\ ppc = "walk"
  /\ stack = <<>>
  /\ Len(archives[Len(archives)].entries) = Len(paths)
  /\ archives' =
       [archives EXCEPT ![Len(archives)] =
          [@ EXCEPT !.entries = <<[name |-> <<"metadata.json">>, synthetic |-> TRUE]>> \o @,
                    !.walked = paths,
                    !.finished = TRUE]]
  /\ ppc' = "next"
  /\ UNCHANGED <<uid, parses, pack_packages, todo, cur, root, stack, paths, stages>>
  /\ UNCHANGED notPack

\* The end of the loop body: the metadata.json entry is appended and the
\* archive is finished.
append_metadata ==
  /\ ppc = "walk"
  /\ stack = <<>>
  /\ Len(archives[Len(archives)].entries) = Len(paths)
  /\ \/ /\ ppc' = "failed"
        /\ UNCHANGED archives
     \/ /\ archives' =
             [archives EXCEPT ![Len(archives)] =
                [@ EXCEPT !.entries = Append(@, [name |-> <<"metadata.json">>,
                                                 synthetic |-> TRUE]),
                          !.walked = paths,
                          !.finished = TRUE]]
        /\ ppc' = "next"
  /\ UNCHANGED <<uid, parses, pack_packages, todo, cur, root, stack, paths, stages>>
  /\ UNCHANGED notPack

\* PackScript::pack returns Ok after the last package, and so does run_package.
pack_return ==
  /\ ppc = "next"
  /\ todo = <<>>
  /\ ppc' = "done"
  /\ UNCHANGED <<uid, parses, pack_packages, todo, cur, root, stack, paths, stages, archives>>
  /\ UNCHANGED notPack

NextPack ==
  \/ run_package
  \/ PackScript_new
  \/ pack_package
  \/ walk
  \/ append_path
  \/ append_metadata
  \/ pack_return

InitPack ==
  /\ StartPack /\ IdleRun /\ IdleLua /\ IdleLoad /\ IdleVersion /\ IdleArch
  /\ IdleRest

SpecPack == InitPack /\ [][NextPack]_vars

\* The entries of a finished archive follow the rule of C19.
HasAllThenMetadata(archive) ==
  LET n == Len(archive.entries) IN
  /\ n >= 1
  /\ archive.entries[n] = [name |-> <<"metadata.json">>, synthetic |-> TRUE]
  /\ \A i \in 1..(n - 1) : ~archive.entries[i].synthetic
  /\ [i \in 1..(n - 1) |-> archive.entries[i].name] = archive.walked
  /\ {archive.entries[i].name : i \in 1..(n - 1)} = archive.root
  /\ n - 1 = Cardinality(archive.root)
  /\ (~archive.pack \/ archive.root = {}) => n = 1

\* C19: a written archive has one entry for every path beneath the package
\* root, named relative to the root and in the order the walk found them,
\* and the metadata.json entry after all of them as the last entry; without
\* a pack stage or with an empty root it has metadata.json only. When
\* packaging succeeded every declared package has such an archive.
C19_ArchiveEntries ==
  /\ \A k \in DOMAIN archives : archives[k].finished => HasAllThenMetadata(archives[k])
  /\ ppc = "done" =>
       /\ Len(archives) = Len(pack_packages)
       /\ \A k \in DOMAIN archives :
            archives[k].finished /\ archives[k].package = pack_packages[k].name

\* An archive of a nested tree that has a file named metadata.json was
\* finished, after an archive of a package without pack stage.
C19_Witness ==
  /\ ppc = "done"
  /\ Len(archives) = 2
  /\ ~archives[1].pack
  /\ archives[2].root = AllPaths

\* C20: the user id is checked before the recipe is parsed again, before a
\* pack stage is invoked and before an archive file is created; under a user
\* id other than 0 packaging fails and none of the three has happened.
C20_UidFirst ==
  /\ ppc = "check" => (parses = 0 /\ stages = <<>> /\ archives = <<>>)
  /\ (uid # 0 /\ ppc # "check") =>
       (ppc = "failed" /\ parses = 0 /\ stages = <<>> /\ archives = <<>>)

\* Packaging was started under a user id other than 0 and has failed.
C20_Witness == uid # 0 /\ ppc = "failed"

\* ------------------------------------------------ the walk of a package root
\* The paths beneath a package directory that is walked: those of AllPaths,
\* and l, a symlink to the directory d.
WalkPaths == AllPaths \cup {<<"l">>}

\* The trees walked: a path is there only with its parent.
WalkTrees ==
  {t \in SUBSET WalkPaths : \A q \in t : Len(q) > 1 => SubSeq(q, 1, Len(q) - 1) \in t}

\* PackScript::pack at the walk of its one package: the pack stage has
\* returned, the archive file exists, the stack holds the package directory.
StartWalk ==
  /\ uid = 0
  /\ ppc = "walk"
  /\ parses = 1
  /\ pack_packages = <<[name |-> "a", pack |-> TRUE]>>
  /\ todo = <<>>
  /\ cur = [name |-> "a", pack |-> TRUE]
  /\ root \in WalkTrees
  /\ stack = <<[path |-> <<>>, is_dir |-> TRUE]>>
  /\ paths = <<>>
  /\ stages = <<"a">>
  /\ archives = <<created(cur, root)>>

NextWalk ==
  \/ walk
  \/ append_path
  \/ append_metadata
  \/ pack_return

InitWalk ==
  /\ StartWalk /\ IdleRun /\ IdleLua /\ IdleLoad /\ IdleVersion /\ IdleArch
  /\ IdleRest

\* The loop of the walk goes on while its stack holds a path.
SpecWalk == InitWalk /\ [][NextWalk]_vars /\ WF_vars(walk)

\* p is a proper prefix of q: q is beneath the directory p.
Beneath(p, q) == Len(p) < Len(q) /\ SubSeq(q, 1, Len(p)) = p

\* C30: the walk of the package root terminates for every finite tree, lists
\* every path beneath the root exactly once and not the root itself, does
\* not descend through symlinks, and lists every directory before every
\* path beneath it, so in each archive the entry of a directory precedes the
\* entries of its contents.
C30_Walk ==
  /\ <>(stack = <<>> \/ ppc = "failed")
  /\ [](/\ \A i, j \in DOMAIN paths : i # j => paths[i] # paths[j]
        /\ \A i \in DOMAIN paths : paths[i] # <<>> /\ paths[i] \in root
        /\ \A i \in DOMAIN paths : \A k \in 1..(Len(paths[i]) - 1) : paths[i][k] # "l"
        /\ \A i, j \in DOMAIN paths : Beneath(paths[i], paths[j]) => i < j
        /\ (ppc # "failed" /\ stack = <<>>) => {paths[i] : i \in DOMAIN paths} = root
        /\ \A k \in DOMAIN archives :
             \A i, j \in DOMAIN archives[k].entries :
               (/\ ~archives[k].entries[i].synthetic
                /\ ~archives[k].entries[j].synthetic
                /\ Beneath(archives[k].entries[i].name, archives[k].entries[j].name))
               => i < j)

\* C30 happens: the walk of the full tree, with its nested directories and
\* its symlink to a directory, has ended and its archive is finished.
C30_Witness ==
  /\ ppc = "done"
  /\ root = WalkPaths
  /\ Len(paths) = Cardinality(WalkPaths)
  /\ archives[1].finished
  /\ Len(archives[1].entries) = Cardinality(WalkPaths) + 1

\* C28: packages are packed one at a time in name order; when the pack
\* stage of a package fails, packaging stops with an error, no archive file
\* is created for that package or for a later one, and the archives written
\* for earlier packages remain.
C28_PackFailure ==
  /\ [](/\ \A k \in DOMAIN archives : archives[k].package = pack_packages[k].name
        /\ \A k \in 1..(Len(archives) - 1) : archives[k].finished
        /\ \A k \in 1..(Len(pack_packages) - 1) :
             Bytes[pack_packages[k].name] < Bytes[pack_packages[k + 1].name]
        /\ \A k \in DOMAIN stages :
             \E n \in k..Len(pack_packages) : stages[k] = pack_packages[n].name
        /\ Len(stages) <= Len(archives) + 1)
  /\ [][(ppc = "next" /\ ppc' = "failed") => archives' = archives]_vars
  /\ [][ppc = "failed" => (ppc' = "failed" /\ archives' = archives /\ stages' = stages)]_vars
  /\ [][\A k \in DOMAIN archives :
          /\ k \in DOMAIN archives'
          /\ archives[k].finished => archives'[k] = archives[k]]_vars

\* C28 happens: the first package was archived, the pack stage of the second
\* one was invoked, and packaging has failed without an archive for it.
C28_Witness ==
  /\ ppc = "failed"
  /\ stages = <<"a", "b">>
  /\ cur.name = "b"
  /\ Len(archives) = 1
  /\ archives[1].finished

\* --------------------------------------------------- fetch.rs: is_safe_name
\* str::split of one character: the pieces between the delimiters, in order.
RECURSIVE split(_, _)
split(str, delimiter) ==
  IF is_none(split_once(str, delimiter)) THEN <<str>>
  ELSE <<split_once(str, delimiter)[1][1]>>
         \o split(split_once(str, delimiter)[1][2], delimiter)

\* The components of the pieces from piece i on: an empty piece is no
\* component, `.` is CurDir as the first piece of a relative path only and
\* no component elsewhere, `..` is ParentDir, every other piece is Normal.
RECURSIVE components_from(_, _, _)
components_from(pieces, i, has_root) ==
  IF i > Len(pieces) THEN <<>>
  ELSE LET rest == components_from(pieces, i + 1, has_root) IN
       IF pieces[i] = <<>> THEN rest
       ELSE IF pieces[i] = <<".">>
         THEN IF i = 1 /\ ~has_root THEN <<"CurDir">> \o rest ELSE rest
       ELSE IF pieces[i] = <<".", ".">> THEN <<"ParentDir">> \o rest
       ELSE <<"Normal">> \o rest

\* Path::new(name).components() on Unix: RootDir for a leading slash, then
\* the components of the pieces between the slashes.
components(name) ==
  LET has_root == name # <<>> /\ name[1] = "/" IN
  (IF has_root THEN <<"RootDir">> ELSE <<>>) \o components_from(split(name, "/"), 1, has_root)

\* The loop of is_safe_name that rejects every ParentDir component.
RECURSIVE is_safe_loop_no_parent(_, _)
is_safe_loop_no_parent(comps, depth) ==
  IF comps = <<>> THEN TRUE
  ELSE IF Head(comps) \in {"Prefix", "RootDir", "ParentDir"} THEN FALSE
  ELSE is_safe_loop_no_parent(Tail(comps), depth)

\* The loop of is_safe_name over the components, with the depth so far.
RECURSIVE is_safe_loop(_, _)
is_safe_loop(comps, depth) ==
  IF comps = <<>> THEN TRUE
  ELSE IF Head(comps) \in {"Prefix", "RootDir"} THEN FALSE
  ELSE IF Head(comps) = "ParentDir"
    THEN IF depth = 0 THEN FALSE ELSE is_safe_loop(Tail(comps), depth - 1)
  ELSE IF Head(comps) = "Normal" THEN is_safe_loop(Tail(comps), depth + 1)
  ELSE is_safe_loop(Tail(comps), depth)

\* fn is_safe_name. "NUL" is the null byte.
is_safe_name(name) ==
  IF \E i \in DOMAIN name : name[i] = "NUL" THEN FALSE
  ELSE is_safe_loop(components(name), 0)

\* ------------------------------------- fetch.rs: the file tasks of a fetch
\* The file names of the locations: a plain file, a compressed tar, a deb,
\* and a file named as an archive suffix without its dot.
LocationNames ==
  {<<"f">>, <<"f", ".", "t", "g", "z">>, <<"f", ".", "d", "e", "b">>, <<"t", "g", "z">>}

\* The values of `rename`.
Renames == {NoneOpt, Some(<<"f">>), Some(<<"g", ".", "t", "g", "z">>)}

\* The members of a deb that extract_deb opens, and a member whose path
\* leaves the extraction directory.
ControlTarXz == <<"c", "o", "n", "t", "r", "o", "l", ".", "t", "a", "r", ".", "x", "z">>
DataTarXz == <<"d", "a", "t", "a", ".", "t", "a", "r", ".", "x", "z">>
Escaping == <<".", ".", "/", "e">>

\* What the ar archive of a deb holds, in order.
DebMembers ==
  {<<ControlTarXz, DataTarXz>>,
   <<ControlTarXz, DataTarXz, Escaping>>,
   <<Escaping, ControlTarXz, DataTarXz>>}

\* The SourceFiles of a recipe the loader has accepted: every one has a
\* location with a file name. `members` is what the file holds when it is
\* read as an ar archive.
TaskFiles ==
  {f \in [location : LocationNames, rename : Renames, members : DebMembers \cup {<<>>}] :
     f.members = <<>> <=> f.location # <<"f", ".", "d", "e", "b">>}

\* The largest number of source files of a recipe whose file tasks are
\* followed one by one; all of them fit the admission window.
MaxTasks == 2

StartTask ==
  /\ tfiles \in UNION {[1..n -> TaskFiles] : n \in 1..MaxTasks}
  /\ tstatus = [i \in DOMAIN tfiles |-> "pending"]
  /\ tdst = [i \in DOMAIN tfiles |-> NoneOpt]
  /\ textracted = [i \in DOMAIN tfiles |-> <<>>]
  /\ tresult = "new"

\* fetch_source_inner up to its loop: the first PARALLEL files are pushed.
fetch_source_inner_push ==
  /\ tresult = "new"
  /\ tstatus' = [i \in DOMAIN tfiles |-> IF i <= PARALLEL THEN "pushed" ELSE "pending"]
  /\ tresult' = None
  /\ UNCHANGED <<tfiles, tdst, textracted>>
  /\ UNCHANGED notTask

\* let ar_kind = file.location.file_name().and_then(ArchiveKind::from_file_name).
ar_kind(file) == from_file_name(location_file_name(file))

\* The destination fetch_single_source_inner writes: the directory named by
\* rename, else by the name without its archive suffix, when a kind was
\* decided, and the plain file named file_name() otherwise.
destination(file) ==
  IF is_some(ar_kind(file).val)
    THEN [path |-> unwrap_or(file.rename, ar_kind(file).val[1][2]),
          kind |-> Some(ar_kind(file).val[1][1])]
  ELSE [path |-> file_name(file), kind |-> NoneOpt]

\* fetch_single_source_inner up to its first await: the kind and the
\* destination of task i are decided.
fetch_single_source_inner(i) ==
  /\ tresult = None
  /\ i \in DOMAIN tfiles
  /\ tstatus[i] = "pushed"
  /\ IF ar_kind(tfiles[i]).panic
       THEN /\ tresult' = "panic"
            /\ UNCHANGED <<tstatus, tdst>>
       ELSE /\ tdst' = [tdst EXCEPT ![i] = Some(destination(tfiles[i]))]
            /\ tstatus' = [tstatus EXCEPT ![i] = "running"]
            /\ UNCHANGED tresult
  /\ UNCHANGED <<tfiles, textracted>>
  /\ UNCHANGED notTask

\* The loop of extract_ar: the members written before the loop ends, at the
\* end of the archive or at a member that is_safe_name rejects.
RECURSIVE extract_ar_loop(_)
extract_ar_loop(members) ==
  IF members = <<>> THEN <<>>
  ELSE IF ~is_safe_name(Head(members)) THEN <<>>
  ELSE <<Head(members)>> \o extract_ar_loop(Tail(members))

\* fn extract_ar, I/O errors aside: Ok(()) after the loop.
extract_ar(members) == [ok |-> TRUE, written |-> extract_ar_loop(members)]

\* fn extract_deb, I/O errors aside: extract_ar, then control.tar.xz and
\* data.tar.xz are opened beneath dst; File::open fails on a missing one.
extract_deb(members) ==
  LET ar == extract_ar(members)
      there == {ar.written[k] : k \in DOMAIN ar.written}
  IN
  IF ~ar.ok THEN ar
  ELSE IF ControlTarXz \notin there \/ DataTarXz \notin there
    THEN [ok |-> FALSE, written |-> ar.written]
  ELSE [ok |-> TRUE, written |-> ar.written]

\* What the `?` of the loop does with the error of task i: it leaves
\* fetch_source_inner, the pool and the tasks still in it are dropped.
task_failed(i) ==
  /\ tstatus' = [j \in DOMAIN tstatus |->
                   IF j = i THEN "failed"
                   ELSE IF tstatus[j] \in {"pushed", "running"} THEN "dropped"
                   ELSE tstatus[j]]
  /\ tresult' = "err"

\* The rest of fetch_single_source_inner for task i, and the step of the
\* loop of fetch_source_inner that takes its result: the transfer, then the
\* extraction by kind or nothing more for a plain file. The iterator has no
\* file left to push.
fetch_single_source_finish(i) ==
  /\ tresult = None
  /\ i \in DOMAIN tfiles
  /\ tstatus[i] = "running"
  /\ \/ \* download, open or copy fails
        /\ task_failed(i)
        /\ UNCHANGED textracted
     \/ /\ tdst[i][1].kind = Some("Deb")
        /\ textracted' = [textracted EXCEPT ![i] = extract_deb(tfiles[i].members).written]
        /\ IF extract_deb(tfiles[i].members).ok
             THEN /\ tstatus' = [tstatus EXCEPT ![i] = "done"]
                  /\ UNCHANGED tresult
             ELSE task_failed(i)
     \/ \* the tar and zip libraries unpack, or fail
        /\ tdst[i][1].kind \notin {NoneOpt, Some("Deb")}
        /\ \/ /\ tstatus' = [tstatus EXCEPT ![i] = "done"]
              /\ UNCHANGED tresult
           \/ task_failed(i)
        /\ UNCHANGED textracted
     \/ /\ tdst[i][1].kind = NoneOpt
        /\ tstatus' = [tstatus EXCEPT ![i] = "done"]
        /\ UNCHANGED <<tresult, textracted>>
  /\ UNCHANGED <<tfiles, tdst>>
  /\ UNCHANGED notTask

\* pool.try_next() yields None: every task is done, fetch_source returns Ok.
fetch_source_inner_return ==
  /\ tresult = None
  /\ \A i \in DOMAIN tstatus : tstatus[i] = "done"
  /\ tresult' = "ok"
  /\ UNCHANGED <<tfiles, tstatus, tdst, textracted>>
  /\ UNCHANGED notTask

NextTask ==
  \/ fetch_source_inner_push
  \/ \E i \in 1..MaxTasks : fetch_single_source_inner(i)
  \/ \E i \in 1..MaxTasks : fetch_single_source_finish(i)
  \/ fetch_source_inner_return

InitTask == StartTask /\ IdleOld /\ IdleSafe /\ IdleScope

SpecTask == InitTask /\ [][NextTask]_vars

\* C22: no two file tasks in flight at the same time write the same
\* destination path in the staging directory: the files of an accepted
\* recipe that are fetched concurrently have pairwise distinct destinations.
C22_DistinctDestinations ==
  \A i, j \in DOMAIN tfiles :
    (i # j /\ tstatus[i] = "running" /\ tstatus[j] = "running")
    => tdst[i][1].path # tdst[j][1].path

\* C24: the archive kind of a source file is decided on its resolved file
\* name, rename when given and the last segment of the location otherwise: a
\* file renamed to a name with an archive suffix is extracted as that kind,
\* a file renamed to a name without one is stored as an opaque file.
C24_KindOfResolvedName ==
  \A i \in DOMAIN tfiles :
    (tdst[i] # <<>> /\ ~from_file_name(file_name(tfiles[i])).panic) =>
      tdst[i][1].kind =
        (IF from_file_name(file_name(tfiles[i])).val = <<>> THEN NoneOpt
         ELSE Some(from_file_name(file_name(tfiles[i])).val[1][1]))

\* C26: when a member of an archive fails the safety check, the extraction
\* of that archive ends in a failure that is reported for the file and ends
\* the fetch with an error; it never ends as a successful extraction, be it
\* a partial one.
C26_UnsafeMemberFails ==
  \A i \in DOMAIN tfiles :
    (/\ tdst[i] # <<>>
     /\ tdst[i][1].kind = Some("Deb")
     /\ \E k \in DOMAIN tfiles[i].members : ~is_safe_name(tfiles[i].members[k]))
    => /\ tstatus[i] # "done"
       /\ tresult # "ok"

\* ------------------------------------------------ is_safe_name on its own
\* The longest member path looked at, the paths of the tests aside.
MaxNameLen == 5

\* The characters of the member paths: the separator, the dot, a letter and
\* the null byte.
NameChars == {"/", ".", "a", "NUL"}

\* The member paths the description of the check names.
SampleNames ==
  {<<".", ".", "/", ".", ".", "/", "e", "t", "c", "/", "p", "a", "s", "s", "w", "d">>,
   <<"a", "/", ".", ".", "/", ".", ".", "/", "b">>,
   <<"a", "/", "b", "/", "c", ".", "t", "x", "t">>,
   <<"a", "/", ".", ".", "/", "b">>}

MemberNames == UNION {[1..n -> NameChars] : n \in 0..MaxNameLen} \cup SampleNames

StartSafe ==
  /\ sname \in MemberNames
  /\ ssafe = <<>>

\* is_safe_name(name), as extract_ar calls it for a member.
check_name ==
  /\ ssafe = <<>>
  /\ ssafe' = Some(is_safe_name(sname))
  /\ UNCHANGED sname
  /\ UNCHANGED notSafe

NextSafe == check_name

InitSafe == StartSafe /\ IdleOld /\ IdleTask /\ IdleScope

SpecSafe == InitSafe /\ [][NextSafe]_vars

\* The non-empty pieces of a path between its slashes.
Pieces(name) == SelectSeq(split(name, "/"), LAMBDA p : p # <<>>)

\* Some prefix of the pieces has more `..` than names (`.` is neither).
Escapes(name) ==
  \E k \in 1..Len(Pieces(name)) :
    Cardinality({i \in 1..k : Pieces(name)[i] = <<".", ".">>})
      > Cardinality({i \in 1..k : Pieces(name)[i] \notin {<<".">>, <<".", ".">>}})

\* C25: the check accepts a path exactly when it has no null byte, no root
\* component, and no prefix of its components in which the `..` components
\* outnumber the normal ones, `.` being ignored; ../../etc/passwd and
\* a/../../b are rejected, a/b/c.txt and a/../b are accepted.
C25_SafeName ==
  ssafe # <<>> =>
    /\ ssafe[1] <=>
         /\ \A i \in DOMAIN sname : sname[i] # "NUL"
         /\ ~(sname # <<>> /\ sname[1] = "/")
         /\ ~Escapes(sname)
    /\ sname \in {<<".", ".", "/", ".", ".", "/", "e", "t", "c", "/", "p", "a", "s", "s", "w", "d">>, <<"a", "/", ".", ".", "/", ".", ".", "/", "b">>} => ~ssafe[1]
    /\ sname \in {<<"a", "/", "b", "/", "c", ".", "t", "x", "t">>, <<"a", "/", ".", ".", "/", "b">>} => ssafe[1]

\* C25 happens: a path that goes up and stays beneath the root was accepted.
C25_Witness == sname = <<"a", "/", ".", ".", "/", "b">> /\ ssafe = <<TRUE>>

\* ------------------------------------------- ewe-build: BuildScript::scope
\* The largest number of stage invocations of one BuildScript.
MaxInvocations == 2
\* The largest number of paths a stage pushes on its current directory.
MaxCd == 2

StartScope ==
  /\ sinv = 0
  /\ sactive = FALSE
  /\ g_run = NoneOpt
  /\ g_cd = NoneOpt
  /\ alive = {}
  /\ cells = <<>>
  /\ saved = NoneOpt
  /\ lastHelper = <<>>

\* BuildScript::build enters scope: current_dir is a new cell that holds
\* source_dir, `run` and `cd` are created in the Lua scope and set as
\* globals, then the build function of the script is called.
build_scope ==
  /\ ~sactive
  /\ sinv < MaxInvocations
  /\ sinv' = sinv + 1
  /\ sactive' = TRUE
  /\ cells' = Append(cells, <<>>)
  /\ alive' = alive \cup {sinv + 1}
  /\ g_run' = Some(sinv + 1)
  /\ g_cd' = Some(sinv + 1)
  /\ UNCHANGED <<saved, lastHelper>>
  /\ UNCHANGED notScope

\* A call of the `cd` closure of invocation k: it pushes the path on the
\* current_dir it has captured. A scoped function that was destructed
\* returns CallbackDestructed.
call_cd(k, path) ==
  IF k \in alive
    THEN /\ Len(cells[k]) < MaxCd
         /\ cells' = [cells EXCEPT ![k] = Append(@, [path |-> path, by |-> sinv])]
         /\ lastHelper' = <<[helper |-> "cd", closure |-> k, during |-> sinv, ok |-> TRUE,
                             dir |-> cells'[k]]>>
    ELSE /\ UNCHANGED cells
         /\ lastHelper' = <<[helper |-> "cd", closure |-> k, during |-> sinv, ok |-> FALSE,
                             dir |-> <<>>]>>

\* A call of the `run` closure of invocation k: the command runs in the
\* current_dir the closure has captured.
call_run(k) ==
  /\ lastHelper' = <<[helper |-> "run", closure |-> k, during |-> sinv, ok |-> k \in alive,
                      dir |-> IF k \in alive THEN cells[k] ELSE <<>>]>>
  /\ UNCHANGED cells

\* The script, inside a stage: it calls the global `cd`.
lua_cd ==
  /\ sactive
  /\ g_cd # NoneOpt
  /\ \E path \in {"a", "b"} : call_cd(g_cd[1], path)
  /\ UNCHANGED <<sinv, sactive, g_run, g_cd, alive, saved>>
  /\ UNCHANGED notScope

\* The script, inside a stage: it calls the global `run`.
lua_run ==
  /\ sactive
  /\ g_run # NoneOpt
  /\ call_run(g_run[1])
  /\ UNCHANGED <<sinv, sactive, g_run, g_cd, alive, saved>>
  /\ UNCHANGED notScope

\* The script, inside a stage: it keeps the global helpers in a variable of
\* its own.
lua_save ==
  /\ sactive
  /\ g_run # NoneOpt
  /\ saved = NoneOpt
  /\ saved' = g_run
  /\ UNCHANGED <<sinv, sactive, g_run, g_cd, alive, cells, lastHelper>>
  /\ UNCHANGED notScope

\* The script, inside a stage: it calls a helper it has kept.
lua_call_saved ==
  /\ sactive
  /\ saved # NoneOpt
  /\ \/ call_run(saved[1])
     \/ \E path \in {"a", "b"} : call_cd(saved[1], path)
  /\ UNCHANGED <<sinv, sactive, g_run, g_cd, alive, saved>>
  /\ UNCHANGED notScope

\* The build function returns, or fails, and lua.scope ends: the functions
\* created in the scope are destructed. Nothing is taken out of the globals.
build_return ==
  /\ sactive
  /\ sactive' = FALSE
  /\ alive' = alive \ {sinv}
  /\ UNCHANGED <<sinv, g_run, g_cd, cells, saved, lastHelper>>
  /\ UNCHANGED notScope

NextScope ==
  \/ build_scope
  \/ lua_cd
  \/ lua_run
  \/ lua_save
  \/ lua_call_saved
  \/ build_return

InitScope == StartScope /\ IdleOld /\ IdleTask /\ IdleSafe

SpecScope == InitScope /\ [][NextScope]_vars

\* C27: once a stage invocation has returned, the helpers `run` and `cd`
\* installed for it are neither callable nor visible in the global scope of
\* the interpreter, and the current directory that `cd` changes in one
\* invocation never affects a `run` of another invocation.
C27_HelpersScoped ==
  /\ ~sactive => (g_run = NoneOpt /\ g_cd = NoneOpt)
  /\ (lastHelper # <<>> /\ lastHelper[1].ok) => lastHelper[1].closure = lastHelper[1].during
  /\ (lastHelper # <<>> /\ lastHelper[1].ok) =>
       \A n \in DOMAIN lastHelper[1].dir : lastHelper[1].dir[n].by = lastHelper[1].during

====
